---- MODULE Spec2Model ----
(***************************************************************************)
(* Error handling and structured logging pipeline of go-std-api:           *)
(*   internal/errors      (AppError, AsAppError, constructors)             *)
(*   internal/logger      (global logger, WithContext, Error/Warn records) *)
(*   internal/response    (ResponseWriter.Error and the JSON envelopes)    *)
(*   internal/middleware  (ErrorHandler, Recovery, WithErrorHandler,       *)
(*                         errorResponseWriter)                            *)
(*                                                                         *)
(* The specifications share the variables:                                 *)
(*   Spec        one request at a time through one of the middlewares,     *)
(*               with a handler that writes, returns, fails or panics;     *)
(*   SpecWrite   two recorders on which WriteError / ResponseWriter.Error  *)
(*               are called directly (as the unit tests do), the second    *)
(*               with an error that differs from the first only in its     *)
(*               internal cause;                                           *)
(*   SpecLogger  goroutines calling logger.GetLogger / logger.Initialize   *)
(*               concurrently;                                             *)
(*   SpecAppError  one AppError built by NewAppError and its with-calls;   *)
(*   SpecCollect   AsAppError and ValidationErrors over the instances;     *)
(*   SpecLog     loggers derived by Logger.WithContext and the records     *)
(*               Logger.Error / Logger.Warn emit through them.             *)
(*                                                                         *)
(* Timestamps are not modelled: no modelled decision reads them.           *)
(***************************************************************************)
EXTENDS Integers, Naturals, Sequences, FiniteSets, TLC

VARIABLES
    cfg,          \* *ErrorHandlerConfig shared by the middlewares
    mw,           \* per slot: which entry point serves the request
    req,          \* per slot: the *http.Request (context values, header)
    pc,           \* per slot: position of the request
    w,            \* per slot: the underlying http.ResponseWriter
    ew,           \* per slot: the errorResponseWriter wrapping w
    logs,         \* per slot: records the request emitted to the log sink
    arg,          \* per slot: the error the direct caller passes first
    calls,        \* per slot: number of WriteError / Error calls made
    ops,          \* per slot: number of handler steps taken
    panicVal,     \* per slot: value the handler panicked with ("" if none)
    synth,        \* per slot: AppError synthesized by panic recovery
    uuidCount,    \* number of identifiers uuid.New() has produced
    nreq,         \* number of requests started
    globalLogger, \* logger.globalLogger (0 is nil)
    initCount,    \* number of Logger instances Initialize has allocated
    gpc,          \* per goroutine: position inside GetLogger / Initialize
    gseen,        \* per goroutine: newest write to globalLogger it has observed
    gret,         \* per goroutine: sequence of Logger instances GetLogger returned
    gwrites,      \* sequence of values written to globalLogger
    heap,         \* the *AppError instances allocated, by address
    born,         \* per instance: Code, Message and HTTPStatus at construction
    trail,        \* per instance: the with-calls made on it, in order
    prev,         \* heap before the last operation
    last,         \* the last operation of the errors package and its result
    ve,           \* ValidationErrors.Errors: addresses in insertion order
    veAdded,      \* the fields passed to ValidationErrors.Add, in order
    loggers,      \* the *Logger instances: attributes each one carries
    sink,         \* records written to the log output, in order
    auth,         \* the request in AuthMiddleware / JWTAuthMiddleware
    page,         \* the last pagination call: its arguments and its result
    users,        \* the rows of the users table, in insertion order
    userCalls     \* per caller: the user-service call it is in

vars == <<cfg, mw, req, pc, w, ew, logs, arg, calls, ops, panicVal, synth,
          uuidCount, nreq, globalLogger, initCount, gpc, gseen, gret, gwrites,
          heap, born, trail, prev, last, ve, veAdded, loggers, sink,
          auth, page, users, userCalls>>

reqVars == <<cfg, mw, req, pc, w, ew, logs, arg, calls, ops, panicVal, synth,
             uuidCount, nreq>>

logVars == <<globalLogger, initCount, gpc, gseen, gret, gwrites>>

errVars == <<heap, born, trail, prev, last, ve, veAdded>>

sinkVars == <<loggers, sink>>

libVars == <<errVars, sinkVars>>

svcVars == <<auth, page, users, userCalls>>

\* The service-layer state that is not the authentication middleware's
nonAuthVars == <<page, users, userCalls>>

\* The service-layer state that is not the pagination's
nonPageVars == <<auth, users, userCalls>>

\* The service-layer state that is not the user service's
nonUserVars == <<auth, page>>

----------------------------------------------------------------------------
(* Bounds of the model *)

MaxCalls == 2

MaxHandlerOps == 2

MaxRequests == 2

MaxGetCalls == 2

MaxWithCalls == 2

MaxInstances == 3

MaxLoggers == 2

MaxRecords == 1

\* Width in bits of the machine integers (int, int64) of the model
IntBits == 16

\* User-service calls each caller makes
MaxUserCalls == 2

Slots == {"a", "b"}

----------------------------------------------------------------------------
(* internal/errors *)

ErrCodeNotFound == "NOT_FOUND"
ErrCodeBadRequest == "BAD_REQUEST"
ErrCodeUnauthorized == "UNAUTHORIZED"
ErrCodeForbidden == "FORBIDDEN"
ErrCodeConflict == "CONFLICT"
ErrCodeValidation == "VALIDATION_ERROR"
ErrCodeRateLimit == "RATE_LIMIT_EXCEEDED"
ErrCodeInternal == "INTERNAL_ERROR"
ErrCodeServiceUnavailable == "SERVICE_UNAVAILABLE"
ErrCodeDatabaseError == "DATABASE_ERROR"
ErrCodeExternalService == "EXTERNAL_SERVICE_ERROR"

\* A Go map[string]interface{}: nil, or a finite function from keys to values.
NilMap == [isNil |-> TRUE, kv |-> <<>>]

MakeMap == [isNil |-> FALSE, kv |-> <<>>]

\* m[k] = v that keeps the value a key already has
MapSetKeepFirst(m, k, v) ==
    [isNil |-> FALSE,
     kv |-> [x \in (DOMAIN m.kv) \cup {k} |->
                IF x \in DOMAIN m.kv THEN m.kv[x] ELSE v]]

MapSet(m, k, v) ==
    [isNil |-> FALSE,
     kv |-> [x \in (DOMAIN m.kv) \cup {k} |-> IF x = k THEN v ELSE m.kv[x]]]

MapHas(m, k) == k \in DOMAIN m.kv

\* len(m) == 0: what encoding/json's omitempty tests
MapEmpty(m) == DOMAIN m.kv = {}

\* The text of a nil error
NoCause == "<nil>"

\* A Go error value. kind: "nil" (no error), "plain" (any error that is not an
\* AppError, with its text), "app" (*AppError), "wrap" (an error that wraps
\* the *AppError whose fields it carries, as fmt.Errorf("%w") builds).
NilErr ==
    [kind |-> "nil", text |-> "", Code |-> "", Message |-> "", Details |-> "",
     HTTPStatus |-> 0, Internal |-> NoCause, Context |-> NilMap,
     RequestID |-> "", UserID |-> ""]

PlainErr(text) == [NilErr EXCEPT !.kind = "plain", !.text = text]

\* getHTTPStatusForCode with validation failures as 422
getHTTPStatusForCodeUnprocessable(code) ==
    CASE code = ErrCodeNotFound -> 404
      [] code = ErrCodeBadRequest -> 400
      [] code = ErrCodeValidation -> 422
      [] code = ErrCodeUnauthorized -> 401
      [] code = ErrCodeForbidden -> 403
      [] code = ErrCodeConflict -> 409
      [] code = ErrCodeRateLimit -> 429
      [] code = ErrCodeServiceUnavailable -> 503
      [] OTHER -> 500

getHTTPStatusForCode(code) ==
    CASE code = ErrCodeNotFound -> 404
      [] code \in {ErrCodeBadRequest, ErrCodeValidation} -> 400
      [] code = ErrCodeUnauthorized -> 401
      [] code = ErrCodeForbidden -> 403
      [] code = ErrCodeConflict -> 409
      [] code = ErrCodeRateLimit -> 429
      [] code = ErrCodeServiceUnavailable -> 503
      [] code \in {ErrCodeInternal, ErrCodeDatabaseError, ErrCodeExternalService} -> 500
      [] OTHER -> 500

NewAppError(code, message) ==
    [kind |-> "app", text |-> "", Code |-> code, Message |-> message,
     Details |-> "", HTTPStatus |-> getHTTPStatusForCode(code),
     Internal |-> NoCause, Context |-> MakeMap, RequestID |-> "", UserID |-> ""]

\* WithDetails that also overwrites the message
WithDetailsOverMessage(e, details) ==
    [e EXCEPT !.Details = details, !.Message = details]

WithDetails(e, details) == [e EXCEPT !.Details = details]

\* err.Error() of the cause is what the model keeps of it
WithInternal(e, err) ==
    [e EXCEPT !.Internal = IF err.kind = "nil" THEN NoCause ELSE err.text]

WithContext(e, key, value) == [e EXCEPT !.Context = MapSet(e.Context, key, value)]

WithRequestID(e, requestID) == [e EXCEPT !.RequestID = requestID]

WithUserID(e, userID) == [e EXCEPT !.UserID = userID]

WithHTTPStatus(e, status) == [e EXCEPT !.HTTPStatus = status]

NotFound(resource) == NewAppError(ErrCodeNotFound, resource \o " not found")

ValidationError(field, message) ==
    WithContext(
        WithDetails(NewAppError(ErrCodeValidation,
                                "Validation failed for field '" \o field \o "'"),
                    message),
        "field", field)

InternalError(message) == NewAppError(ErrCodeInternal, message)

DatabaseError(operation, err) ==
    WithInternal(NewAppError(ErrCodeDatabaseError,
                             "Database operation failed: " \o operation), err)

\* AppError.Error()
AppErrorErrorAlwaysDash(e) == e.Code \o ": " \o e.Message \o " - " \o e.Details

AppErrorError(e) ==
    IF e.Details # ""
    THEN e.Code \o ": " \o e.Message \o " - " \o e.Details
    ELSE e.Code \o ": " \o e.Message

\* AppError.Unwrap(): the internal cause (NoCause for nil)
Unwrap(e) == e.Internal

\* AsAppError that drops the error it converts
AsAppErrorNoCause(err) ==
    CASE err.kind = "nil" -> NilErr
      [] err.kind = "app" -> err
      [] err.kind = "wrap" -> [err EXCEPT !.kind = "app", !.text = ""]
      [] OTHER -> InternalError("An unexpected error occurred")

\* errors.As finds the *AppError itself or the one an error wraps; any other
\* non-nil error becomes a generic internal error that keeps it as the cause.
AsAppError(err) ==
    CASE err.kind = "nil" -> NilErr
      [] err.kind = "app" -> err
      [] err.kind = "wrap" -> [err EXCEPT !.kind = "app", !.text = ""]
      [] OTHER -> WithInternal(InternalError("An unexpected error occurred"), err)

----------------------------------------------------------------------------
(* The request: context values and headers *)

\* A context.Context value under one key: absent, a non-string, or a string.
CtxAbsent == [tag |-> "absent", str |-> ""]

CtxOther == [tag |-> "other", str |-> ""]

CtxStr(s) == [tag |-> "string", str |-> s]

\* uuid.New().String(): the n-th identifier generated by the process
GenID(n) == "gen-" \o ToString(n)

\* getRequestID with the header consulted before the context
getRequestIDHeaderFirst(r, n) ==
    IF r.hdrRequestID # ""
    THEN [id |-> r.hdrRequestID, uuid |-> n]
    ELSE IF r.ctxRequestID.tag = "string" /\ r.ctxRequestID.str # ""
         THEN [id |-> r.ctxRequestID.str, uuid |-> n]
         ELSE [id |-> GenID(n + 1), uuid |-> n + 1]

\* getRequestID returns the identifier and the new count of generated ones
getRequestID(r, n) ==
    IF r.ctxRequestID.tag = "string" /\ r.ctxRequestID.str # ""
    THEN [id |-> r.ctxRequestID.str, uuid |-> n]
    ELSE IF r.hdrRequestID # ""
         THEN [id |-> r.hdrRequestID, uuid |-> n]
         ELSE [id |-> GenID(n + 1), uuid |-> n + 1]

getUserID(r) ==
    IF r.ctxUserID.tag = "string" THEN r.ctxUserID.str ELSE ""

getRequestIDFromContext(r) ==
    IF r.ctxRequestID.tag = "string" /\ r.ctxRequestID.str # ""
    THEN r.ctxRequestID.str
    ELSE IF r.hdrRequestID # "" THEN r.hdrRequestID ELSE ""

\* logger.getStringFromContext on a context value
getStringFromContext(v) == IF v.tag = "string" THEN v.str ELSE ""

----------------------------------------------------------------------------
(* internal/logger: derived loggers and the records they emit *)

NoErrorEntry ==
    [form |-> "none", Code |-> "", Message |-> "", Details |-> "",
     Context |-> NilMap, Internal |-> "", StackTrace |-> FALSE, text |-> ""]

\* buildErrorLogEntry that captures the stack trace of server errors only
buildErrorLogEntryServerOnly(appErr) ==
    [form |-> "structured", Code |-> appErr.Code, Message |-> appErr.Message,
     Details |-> appErr.Details, Context |-> appErr.Context,
     Internal |-> IF appErr.Internal # NoCause THEN appErr.Internal ELSE "",
     StackTrace |-> appErr.Internal # NoCause /\ appErr.HTTPStatus >= 500,
     text |-> ""]

buildErrorLogEntry(appErr) ==
    [form |-> "structured", Code |-> appErr.Code, Message |-> appErr.Message,
     Details |-> appErr.Details, Context |-> appErr.Context,
     Internal |-> IF appErr.Internal # NoCause THEN appErr.Internal ELSE "",
     StackTrace |-> appErr.Internal # NoCause, text |-> ""]

\* Logger.WithContext: the correlation attributes the derived logger carries
LoggerWithContext(ctxRequestID, ctxUserID, ctxTraceID) ==
    [request_id |-> getStringFromContext(ctxRequestID),
     user_id |-> getStringFromContext(ctxUserID),
     trace_id |-> getStringFromContext(ctxTraceID)]

\* The "error" attribute Logger.Error attaches for err
ErrorAttr(err) ==
    IF err.kind = "nil"
    THEN NoErrorEntry
    ELSE LET appErr == AsAppError(err)
         IN  IF appErr.kind # "nil"
             THEN buildErrorLogEntry(appErr)
             ELSE [NoErrorEntry EXCEPT !.form = "text", !.text = err.text]

\* Logger.Error(msg, err, "status_code", .., "error_code", .., "stack_trace", ..)
LoggerError(l, msg, err, statusCode, errorCode, stackTrace) ==
    [level |-> "ERROR", msg |-> msg, request_id |-> l.request_id,
     user_id |-> l.user_id, trace_id |-> l.trace_id,
     status_code |-> statusCode, error_code |-> errorCode, message |-> "",
     stack_trace |-> stackTrace, error |-> ErrorAttr(err)]

\* Logger.Warn(msg, "status_code", .., "error_code", .., "message", ..)
LoggerWarn(l, msg, statusCode, errorCode, message) ==
    [level |-> "WARN", msg |-> msg, request_id |-> l.request_id,
     user_id |-> l.user_id, trace_id |-> l.trace_id,
     status_code |-> statusCode, error_code |-> errorCode, message |-> message,
     stack_trace |-> "", error |-> NoErrorEntry]

----------------------------------------------------------------------------
(* The underlying http.ResponseWriter *)

NewRecorder == [status |-> 0, headerCalls |-> 0, contentType |-> "", body |-> <<>>]

UHeaderSet(wr, ct) == [wr EXCEPT !.contentType = ct]

\* Only the first WriteHeader sets the status of the response
UWriteHeader(wr, code) ==
    [wr EXCEPT !.headerCalls = @ + 1, !.status = IF @ = 0 THEN code ELSE @]

\* A Write before any WriteHeader sends status 200
UWrite(wr, chunk) ==
    [wr EXCEPT !.status = IF @ = 0 THEN 200 ELSE @, !.body = Append(@, chunk)]

\* What is written to a body: handler bytes ("data"), a success envelope
\* ("ok"), the middleware's ErrorResponse ("mwerr"), the response package's
\* ErrorResponse ("resperr"), or the plain text of http.Error ("text").
Chunk(kind, text) ==
    [kind |-> kind, success |-> FALSE, error |-> "", code |-> "", details |-> "",
     context |-> NilMap, request_id |-> "", text |-> text]

\* A value encoding/json cannot encode (a channel, a function)
Unencodable == "<chan>"

\* json.Encoder.Encode fails, before writing anything, on such a value
JSONEncodable(resp) ==
    \A k \in DOMAIN resp.context.kv : resp.context.kv[k] # Unencodable

----------------------------------------------------------------------------
(* internal/middleware: errorResponseWriter *)

DefaultMessage == "An error occurred while processing your request"

NewErrorResponseWriter == [statusCode |-> 0, errorWritten |-> FALSE]

\* The writer the handler holds: the errorResponseWriter (via = TRUE, under
\* ErrorHandler) or the underlying writer itself. io is [ew, w].
IOWriteHeader(io, via, code) ==
    IF via
    THEN [ew |-> [io.ew EXCEPT !.statusCode = code],
          w |-> IF ~io.ew.errorWritten /\ code >= 400
                THEN UWriteHeader(io.w, code)
                ELSE IF ~io.ew.errorWritten
                     THEN UWriteHeader(io.w, code)
                     ELSE io.w]
    ELSE [io EXCEPT !.w = UWriteHeader(io.w, code)]

IOWrite(io, via, chunk) ==
    IF via
    THEN [ew |-> [io.ew EXCEPT !.statusCode = IF @ = 0 THEN 200 ELSE @],
          w |-> UWrite(io.w, chunk)]
    ELSE [io EXCEPT !.w = UWrite(io.w, chunk)]

IOHeaderSet(io, ct) == [io EXCEPT !.w = UHeaderSet(io.w, ct)]

\* buildErrorResponse whose sanitization keeps the error's own code
buildErrorResponseKeepCode(c, appErr) ==
    LET response == [Chunk("mwerr", "") EXCEPT
                        !.error = appErr.Message,
                        !.code = appErr.Code,
                        !.request_id = appErr.RequestID]
        detailed == IF c.EnableDetailedErrors \/ appErr.HTTPStatus < 500
                    THEN [response EXCEPT !.details = appErr.Details,
                                          !.context = appErr.Context]
                    ELSE response
    IN  IF appErr.HTTPStatus >= 500 /\ ~c.EnableDetailedErrors
        THEN [detailed EXCEPT !.error = c.DefaultMessage,
                              !.details = "",
                              !.context = NilMap]
        ELSE detailed

\* buildErrorResponse that adds details and context only with detailed errors
buildErrorResponseDetailsGated(c, appErr) ==
    LET response == [Chunk("mwerr", "") EXCEPT
                        !.error = appErr.Message,
                        !.code = appErr.Code,
                        !.request_id = appErr.RequestID]
        detailed == IF c.EnableDetailedErrors
                    THEN [response EXCEPT !.details = appErr.Details,
                                          !.context = appErr.Context]
                    ELSE response
    IN  IF appErr.HTTPStatus >= 500 /\ ~c.EnableDetailedErrors
        THEN [detailed EXCEPT !.error = c.DefaultMessage,
                              !.code = ErrCodeInternal,
                              !.details = "",
                              !.context = NilMap]
        ELSE detailed

\* buildErrorResponse that reports the cause's text as the details
buildErrorResponseLeakCause(c, appErr) ==
    LET response == [Chunk("mwerr", "") EXCEPT
                        !.error = appErr.Message,
                        !.code = appErr.Code,
                        !.request_id = appErr.RequestID]
        detailed == IF c.EnableDetailedErrors \/ appErr.HTTPStatus < 500
                    THEN [response EXCEPT
                             !.details = IF appErr.Internal # NoCause
                                         THEN appErr.Internal
                                         ELSE appErr.Details,
                             !.context = appErr.Context]
                    ELSE response
    IN  IF appErr.HTTPStatus >= 500 /\ ~c.EnableDetailedErrors
        THEN [detailed EXCEPT !.error = c.DefaultMessage,
                              !.code = ErrCodeInternal,
                              !.details = "",
                              !.context = NilMap]
        ELSE detailed

buildErrorResponse(c, appErr) ==
    LET response == [Chunk("mwerr", "") EXCEPT
                        !.error = appErr.Message,
                        !.code = appErr.Code,
                        !.request_id = appErr.RequestID]
        detailed == IF c.EnableDetailedErrors \/ appErr.HTTPStatus < 500
                    THEN [response EXCEPT !.details = appErr.Details,
                                          !.context = appErr.Context]
                    ELSE response
    IN  IF appErr.HTTPStatus >= 500 /\ ~c.EnableDetailedErrors
        THEN [detailed EXCEPT !.error = c.DefaultMessage,
                              !.code = ErrCodeInternal,
                              !.details = "",
                              !.context = NilMap]
        ELSE detailed

\* errorResponseWriter.logError choosing the level by the status the error
\* code maps to
mwLogErrorByCode(lg, r, appErr) ==
    LET l == LoggerWithContext(CtxStr(appErr.RequestID),
                               IF appErr.UserID # "" THEN CtxStr(appErr.UserID)
                                                     ELSE r.ctxUserID,
                               r.ctxTraceID)
    IN  IF getHTTPStatusForCode(appErr.Code) >= 500
        THEN Append(lg, LoggerError(l, "Server error occurred", appErr,
                                    appErr.HTTPStatus, appErr.Code, ""))
        ELSE Append(lg, LoggerWarn(l, "Client error occurred",
                                   appErr.HTTPStatus, appErr.Code,
                                   appErr.Message))

\* errorResponseWriter.logError: the records appended to lg
mwLogError(lg, r, appErr) ==
    LET l == LoggerWithContext(CtxStr(appErr.RequestID),
                               IF appErr.UserID # "" THEN CtxStr(appErr.UserID)
                                                     ELSE r.ctxUserID,
                               r.ctxTraceID)
    IN  IF appErr.HTTPStatus >= 500
        THEN Append(lg, LoggerError(l, "Server error occurred", appErr,
                                    appErr.HTTPStatus, appErr.Code, ""))
        ELSE IF appErr.HTTPStatus >= 400
             THEN Append(lg, LoggerWarn(l, "Client error occurred",
                                        appErr.HTTPStatus, appErr.Code,
                                        appErr.Message))
             ELSE lg

\* WriteError past its guard. st is [ew, w, logs, uuid].
WriteErrorBody(st, r, c, err) ==
    LET a0 == AsAppError(err)
        a1 == IF a0.kind = "nil"
              THEN WithInternal(InternalError("An unexpected error occurred"), err)
              ELSE a0
        rid == getRequestID(r, st.uuid)
        a2 == IF rid.id # "" THEN WithRequestID(a1, rid.id) ELSE a1
        uid == getUserID(r)
        appErr == IF uid # "" THEN WithUserID(a2, uid) ELSE a2
        response == buildErrorResponse(c, appErr)
        w1 == UWriteHeader(UHeaderSet(st.w, "application/json"), appErr.HTTPStatus)
        w2 == IF JSONEncodable(response)
              THEN UWrite(w1, response)
              ELSE UWrite(UWriteHeader(UHeaderSet(w1, "text/plain; charset=utf-8"), 500),
                          Chunk("text", "Internal server error"))
    IN  [ew |-> [st.ew EXCEPT !.errorWritten = TRUE],
         w |-> w2,
         logs |-> mwLogError(st.logs, r, appErr),
         uuid |-> rid.uuid]

\* WriteError without its errorWritten guard
WriteErrorUnguarded(st, r, c, err) == WriteErrorBody(st, r, c, err)

WriteError(st, r, c, err) ==
    IF st.ew.errorWritten THEN st ELSE WriteErrorBody(st, r, c, err)

----------------------------------------------------------------------------
(* internal/response: ResponseWriter.Error *)

\* ResponseWriter.logError: the records appended to lg
respLogError(lg, r, appErr) ==
    LET l == LoggerWithContext(IF appErr.RequestID # "" THEN CtxStr(appErr.RequestID)
                                                        ELSE r.ctxRequestID,
                               IF appErr.UserID # "" THEN CtxStr(appErr.UserID)
                                                     ELSE r.ctxUserID,
                               r.ctxTraceID)
    IN  IF appErr.HTTPStatus >= 500
        THEN Append(lg, LoggerError(l, "Server error in response", appErr,
                                    appErr.HTTPStatus, "", ""))
        ELSE IF appErr.HTTPStatus >= 400
             THEN Append(lg, LoggerWarn(l, "Client error in response",
                                        appErr.HTTPStatus, appErr.Code,
                                        appErr.Message))
             ELSE lg

\* ResponseWriter.writeJSON on the writer the handler holds
writeJSON(io, via, statusCode, data) ==
    LET io1 == IOWriteHeader(IOHeaderSet(io, "application/json"), via, statusCode)
    IN  IF JSONEncodable(data) THEN IOWrite(io1, via, data) ELSE io1

\* ResponseWriter.Error that stamps the request's id on every error
ResponseErrorRestamp(st, via, r, err) ==
    LET a0 == AsAppError(err)
        a1 == IF a0.kind = "nil" THEN InternalError("An unexpected error occurred")
                                 ELSE a0
        appErr == WithRequestID(a1, getRequestIDFromContext(r))
        errorResp == [Chunk("resperr", "") EXCEPT
                         !.error = appErr.Message,
                         !.code = appErr.Code,
                         !.details = appErr.Details,
                         !.context = appErr.Context,
                         !.request_id = appErr.RequestID]
        io == writeJSON([ew |-> st.ew, w |-> st.w], via, appErr.HTTPStatus, errorResp)
    IN  [ew |-> io.ew, w |-> io.w,
         logs |-> respLogError(st.logs, r, appErr),
         uuid |-> st.uuid]

\* ResponseWriter.Error. st is [ew, w, logs, uuid].
ResponseError(st, via, r, err) ==
    LET a0 == AsAppError(err)
        a1 == IF a0.kind = "nil" THEN InternalError("An unexpected error occurred")
                                 ELSE a0
        appErr == IF a1.RequestID = ""
                  THEN WithRequestID(a1, getRequestIDFromContext(r))
                  ELSE a1
        errorResp == [Chunk("resperr", "") EXCEPT
                         !.error = appErr.Message,
                         !.code = appErr.Code,
                         !.details = appErr.Details,
                         !.context = appErr.Context,
                         !.request_id = appErr.RequestID]
        io == writeJSON([ew |-> st.ew, w |-> st.w], via, appErr.HTTPStatus, errorResp)
    IN  [ew |-> io.ew, w |-> io.w,
         logs |-> respLogError(st.logs, r, appErr),
         uuid |-> st.uuid]

\* ResponseWriter.Success
ResponseSuccess(io, via, r) ==
    writeJSON(io, via, 200,
              [Chunk("ok", "data") EXCEPT !.success = TRUE,
                                          !.request_id = getRequestIDFromContext(r)])

----------------------------------------------------------------------------
(* Inputs *)

Configs ==
    [EnableStackTrace : BOOLEAN, EnableDetailedErrors : BOOLEAN,
     DefaultMessage : {DefaultMessage}]

Causes == {NoCause, "cause-A", "cause-B"}

NewRequest(rid, hdr, uid) ==
    [ctxRequestID |-> rid, hdrRequestID |-> hdr, ctxUserID |-> uid,
     ctxTraceID |-> CtxAbsent]

Requests ==
    {NewRequest(rid, hdr, uid) :
        rid \in {CtxAbsent, CtxOther, CtxStr(""), CtxStr("ctx-1")},
        hdr \in {"", "hdr-1"},
        uid \in {CtxAbsent, CtxStr("user-1")}}

\* Requests the served handlers see
ServedRequests ==
    {NewRequest(rid, hdr, uid) :
        rid \in {CtxAbsent, CtxStr("ctx-1")},
        hdr \in {"", "hdr-1"},
        uid \in {CtxAbsent, CtxStr("user-1")}}

SensitiveInternal ==
    WithContext(WithDetails(InternalError("db connection failed"),
                            "sensitive DB details"),
                "table", "users")

\* Errors without a cause that callers pass; SetCause gives them one.
BaseErrors ==
    {NotFound("user"),
     ValidationError("email", "must be a valid email address"),
     SensitiveInternal,
     WithDetails(NewAppError(ErrCodeDatabaseError, "Database operation failed: insert"),
                 "duplicate key"),
     WithContext(NewAppError(ErrCodeServiceUnavailable, "down"), "service", "mail"),
     WithHTTPStatus(WithDetails(NotFound("user"), "lookup detail"), 503),
     WithHTTPStatus(SensitiveInternal, 400),
     WithHTTPStatus(NewAppError(ErrCodeBadRequest, "moved"), 302),
     WithContext(NewAppError(ErrCodeBadRequest, "bad body"), "ch", Unencodable),
     WithContext(InternalError("worker failed"), "ch", Unencodable),
     WithUserID(WithRequestID(InternalError("tagged"), "err-rid"), "err-uid"),
     [WithDetails(NotFound("post"), "wrapped detail") EXCEPT
         !.kind = "wrap", !.text = "load: NOT_FOUND: post not found - wrapped detail"],
     PlainErr("boom"),
     NilErr}

\* The same error with internal cause c; an error that is not an AppError is
\* its own cause, and no error has none.
SetCause(e, c) ==
    CASE e.kind \in {"app", "wrap"} -> [e EXCEPT !.Internal = c]
      [] e.kind = "plain" -> IF c = NoCause THEN e ELSE PlainErr(c)
      [] OTHER -> e

\* Errors a handler fails with
HandlerErrors ==
    {NotFound("user"), SetCause(SensitiveInternal, "cause-A"), PlainErr("boom")}

PanicValues == {"test panic", "runtime error: nil map"}

----------------------------------------------------------------------------
(* Direct calls on a recorder, as the unit tests make them *)

State(s) == [ew |-> ew[s], w |-> w[s], logs |-> logs[s], uuid |-> uuidCount]

Store(s, st) ==
    /\ ew' = [ew EXCEPT ![s] = st.ew]
    /\ w' = [w EXCEPT ![s] = st.w]
    /\ logs' = [logs EXCEPT ![s] = st.logs]
    /\ uuidCount' = st.uuid

\* An error interface value over the instances: nil, an error that is not an
\* AppError ("plain"), the *AppError at an address ("app"), an error wrapping
\* it ("wrap"), or a nil *AppError stored in the interface ("nilptr").
NilRef == [kind |-> "nil", ptr |-> 0, text |-> ""]

PlainRef(text) == [kind |-> "plain", ptr |-> 0, text |-> text]

AppRef(p) == [kind |-> "app", ptr |-> p, text |-> ""]

WrapRef(p) == [kind |-> "wrap", ptr |-> p, text |-> "load"]

NilPtrRef == [kind |-> "nilptr", ptr |-> 0, text |-> ""]

\* No operation of the errors package has run yet
NoOp ==
    [op |-> "none", ptr |-> 0, key |-> "", val |-> "", num |-> 0, res |-> "",
     out |-> 0, flag |-> FALSE, in |-> NilRef]

\* The logger Initialize builds carries no correlation attributes
RootLogger ==
    [attrs |-> <<>>, parent |-> 0,
     ctx |-> [ctxRequestID |-> [tag |-> "absent", str |-> ""],
              ctxUserID |-> [tag |-> "absent", str |-> ""],
              ctxTraceID |-> [tag |-> "absent", str |-> ""]]]

InitLib ==
    /\ heap = <<>>
    /\ born = <<>>
    /\ trail = <<>>
    /\ prev = <<>>
    /\ last = NoOp
    /\ ve = <<>>
    /\ veAdded = <<>>
    /\ loggers = <<RootLogger>>
    /\ sink = <<>>

\* A request that has not reached an authentication middleware
AuthIdle ==
    [kind |-> "none", apiKey |-> <<>>, hdr |-> <<>>, pc |-> "idle", added |-> <<>>]

\* No pagination call has been made
PageIdle ==
    [op |-> "none", page |-> 0, pageSize |-> 0, total |-> 0, pageStr |-> <<>>,
     pageSizeStr |-> <<>>,
     params |-> [Page |-> 0, PageSize |-> 0, Offset |-> 0],
     meta |-> [Page |-> 0, PageSize |-> 0, Total |-> 0, TotalPages |-> 0,
               HasNext |-> FALSE, HasPrevious |-> FALSE]]

\* The concurrent callers of the user service
Callers == {"c1", "c2"}

\* No user: the nil *models.User
NoUser == [isNil |-> TRUE, Username |-> "", PasswordHash |-> ""]

\* A caller outside any call
CallIdle ==
    [op |-> "none", pc |-> "idle", username |-> "", password |-> "",
     seen |-> NoUser, lookupErr |-> "", storedAtCreate |-> FALSE,
     user |-> NoUser, err |-> "", n |-> 0]

InitSvc ==
    /\ auth = AuthIdle
    /\ page = PageIdle
    /\ users = <<>>
    /\ userCalls = [c \in Callers |-> CallIdle]

InitLogger ==
    /\ globalLogger = 0
    /\ initCount = 0
    /\ gpc = [g \in {} |-> "idle"]
    /\ gseen = [g \in {} |-> 0]
    /\ gret = [g \in {} |-> <<>>]
    /\ gwrites = <<>>

InitWrite ==
    /\ cfg \in Configs
    /\ \E m \in {"WriteError", "ResponseError"} : mw = [s \in Slots |-> m]
    /\ \E r \in Requests : req = [s \in Slots |-> r]
    /\ \E e \in BaseErrors, ca \in {NoCause, "cause-A"}, cb \in Causes :
          arg = [s \in Slots |-> IF s = "a" THEN SetCause(e, ca) ELSE SetCause(e, cb)]
    /\ pc = [s \in Slots |-> "Direct"]
    /\ w = [s \in Slots |-> NewRecorder]
    /\ ew = [s \in Slots |-> NewErrorResponseWriter]
    /\ logs = [s \in Slots |-> <<>>]
    /\ calls = [s \in Slots |-> 0]
    /\ ops = [s \in Slots |-> 0]
    /\ panicVal = [s \in Slots |-> ""]
    /\ synth = [s \in Slots |-> NilErr]
    /\ uuidCount = 0
    /\ nreq = 0
    /\ InitLogger
    /\ InitLib
    /\ InitSvc

\* ew.WriteError(err) on the slot's errorResponseWriter: first with the
\* slot's error, then with any error.
DirectWriteError(s) ==
    /\ pc[s] = "Direct"
    /\ mw[s] = "WriteError"
    /\ calls[s] < MaxCalls
    /\ \E err \in (IF calls[s] = 0 THEN {arg[s]} ELSE BaseErrors) :
          Store(s, WriteError(State(s), req[s], cfg, err))
    /\ calls' = [calls EXCEPT ![s] = @ + 1]
    /\ UNCHANGED <<cfg, mw, req, pc, arg, ops, panicVal, synth, nreq>>
    /\ UNCHANGED <<logVars, libVars, svcVars>>

\* response.NewResponseWriter(w, r).Error(err) on the slot's recorder
DirectResponseError(s) ==
    /\ pc[s] = "Direct"
    /\ mw[s] = "ResponseError"
    /\ calls[s] < MaxCalls
    /\ Store(s, ResponseError(State(s), FALSE, req[s], arg[s]))
    /\ calls' = [calls EXCEPT ![s] = @ + 1]
    /\ UNCHANGED <<cfg, mw, req, pc, arg, ops, panicVal, synth, nreq>>
    /\ UNCHANGED <<logVars, libVars, svcVars>>

NextWrite ==
    \E s \in Slots :
        \/ DirectWriteError(s)
        \/ DirectResponseError(s)

SpecWrite == InitWrite /\ [][NextWrite]_vars

----------------------------------------------------------------------------
(* One request through ErrorHandler, Recovery or WithErrorHandler *)

Middlewares == {"ErrorHandler", "Recovery", "WithErrorHandler"}

Terminal == {"Completed", "ErrorWritten", "Panicked"}

\* Under ErrorHandler the handler is given the errorResponseWriter; Recovery
\* and WithErrorHandler hand it the underlying writer.
ViaEw(s) == mw[s] = "ErrorHandler"

InitReq ==
    /\ cfg \in Configs
    /\ mw = [s \in Slots |-> "none"]
    /\ req = [s \in Slots |-> NewRequest(CtxAbsent, "", CtxAbsent)]
    /\ arg = [s \in Slots |-> NilErr]
    /\ pc = [s \in Slots |-> "Idle"]
    /\ w = [s \in Slots |-> NewRecorder]
    /\ ew = [s \in Slots |-> NewErrorResponseWriter]
    /\ logs = [s \in Slots |-> <<>>]
    /\ calls = [s \in Slots |-> 0]
    /\ ops = [s \in Slots |-> 0]
    /\ panicVal = [s \in Slots |-> ""]
    /\ synth = [s \in Slots |-> NilErr]
    /\ uuidCount = 0
    /\ nreq = 0
    /\ InitLogger
    /\ InitLib
    /\ InitSvc

\* The server calls ServeHTTP with a fresh writer: the middleware builds its
\* errorResponseWriter, installs the deferred recover and calls the handler.
StartRequest(s) ==
    /\ pc[s] \in {"Idle"} \cup Terminal
    /\ nreq < MaxRequests
    /\ nreq' = nreq + 1
    /\ \E m \in Middlewares : mw' = [mw EXCEPT ![s] = m]
    /\ \E r \in ServedRequests : req' = [req EXCEPT ![s] = r]
    /\ pc' = [pc EXCEPT ![s] = "Dispatched"]
    /\ w' = [w EXCEPT ![s] = NewRecorder]
    /\ ew' = [ew EXCEPT ![s] = NewErrorResponseWriter]
    /\ logs' = [logs EXCEPT ![s] = <<>>]
    /\ calls' = [calls EXCEPT ![s] = 0]
    /\ ops' = [ops EXCEPT ![s] = 0]
    /\ panicVal' = [panicVal EXCEPT ![s] = ""]
    /\ synth' = [synth EXCEPT ![s] = NilErr]
    /\ UNCHANGED <<cfg, arg, uuidCount>>
    /\ UNCHANGED <<logVars, libVars, svcVars>>

HandlerStep(s) ==
    /\ pc[s] = "Dispatched"
    /\ ops[s] < MaxHandlerOps
    /\ ops' = [ops EXCEPT ![s] = @ + 1]
    /\ UNCHANGED <<cfg, mw, req, pc, arg, calls, panicVal, synth, nreq>>
    /\ UNCHANGED <<logVars, libVars, svcVars>>

StoreIO(s, io) ==
    /\ ew' = [ew EXCEPT ![s] = io.ew]
    /\ w' = [w EXCEPT ![s] = io.w]
    /\ UNCHANGED <<logs, uuidCount>>

\* The handler calls w.WriteHeader(code)
HandlerWriteHeader(s) ==
    /\ HandlerStep(s)
    /\ StoreIO(s, IOWriteHeader([ew |-> ew[s], w |-> w[s]], ViaEw(s), 200))

\* The handler calls w.Write(data)
HandlerWrite(s) ==
    /\ HandlerStep(s)
    /\ StoreIO(s, IOWrite([ew |-> ew[s], w |-> w[s]], ViaEw(s),
                          Chunk("data", "partial")))

\* The handler calls response.NewResponseWriter(w, r).Success(data)
HandlerSuccess(s) ==
    /\ HandlerStep(s)
    /\ StoreIO(s, ResponseSuccess([ew |-> ew[s], w |-> w[s]], ViaEw(s), req[s]))

\* The handler calls response.NewResponseWriter(w, r).Error(err)
HandlerResponseError(s) ==
    /\ HandlerStep(s)
    /\ \E err \in HandlerErrors :
          Store(s, ResponseError(State(s), ViaEw(s), req[s], err))

\* The handler returns (for an ErrorHandlerFunc: returns nil)
HandlerReturn(s) ==
    /\ pc[s] = "Dispatched"
    /\ pc' = [pc EXCEPT ![s] = "Completed"]
    /\ UNCHANGED <<cfg, mw, req, w, ew, logs, arg, calls, ops, panicVal, synth,
                   uuidCount, nreq>>
    /\ UNCHANGED <<logVars, libVars, svcVars>>

\* An ErrorHandlerFunc returns a non-nil error: WithErrorHandler writes it
\* through its own errorResponseWriter.
HandlerReturnError(s) ==
    /\ pc[s] = "Dispatched"
    /\ mw[s] = "WithErrorHandler"
    /\ \E err \in HandlerErrors :
          Store(s, WriteError(State(s), req[s], cfg, err))
    /\ pc' = [pc EXCEPT ![s] = "ErrorWritten"]
    /\ calls' = [calls EXCEPT ![s] = @ + 1]
    /\ UNCHANGED <<cfg, mw, req, arg, ops, panicVal, synth, nreq>>
    /\ UNCHANGED <<logVars, libVars, svcVars>>

\* fmt.Errorf("panic: %v", rec)
PanicError(rec) == PlainErr("panic: " \o rec)

\* string(debug.Stack())
StackTrace == "goroutine 1 [running]: ..."

\* The AppError ErrorHandler's deferred function builds
ErrorHandlerPanicError(c, rec) ==
    WithContext(
        WithContext(
            WithInternal(InternalError("Internal server error"), PanicError(rec)),
            "panic", "true"),
        "stack_trace", StackTrace)

\* The AppError Recovery's deferred function builds
RecoveryPanicError(c, rec) ==
    LET appErr == WithContext(
                      WithInternal(InternalError("Internal server error"),
                                   PanicError(rec)),
                      "panic", "true")
    IN  IF c.EnableStackTrace
        THEN WithContext(appErr, "stack_trace", StackTrace)
        ELSE appErr

\* The log record Recovery emits before it writes the error; it draws its
\* own request id. st is [ew, w, logs, uuid].
RecoveryLog(st, r, rec) ==
    LET rid == getRequestID(r, st.uuid)
        l == LoggerWithContext(CtxStr(rid.id), r.ctxUserID, r.ctxTraceID)
    IN  [st EXCEPT !.logs = Append(@, LoggerError(l, "Panic recovered",
                                                  PanicError(rec), 0, "", StackTrace)),
                   !.uuid = rid.uuid]

\* The handler panics with rec. ErrorHandler and Recovery recover it in
\* their deferred function; WithErrorHandler has none.
HandlerPanic(s) ==
    /\ pc[s] = "Dispatched"
    /\ \E rec \in PanicValues :
          /\ panicVal' = [panicVal EXCEPT ![s] = rec]
          /\ CASE mw[s] = "ErrorHandler" ->
                    LET appErr == ErrorHandlerPanicError(cfg, rec)
                    IN  /\ Store(s, WriteError(State(s), req[s], cfg, appErr))
                        /\ synth' = [synth EXCEPT ![s] = appErr]
                        /\ pc' = [pc EXCEPT ![s] = "ErrorWritten"]
                        /\ calls' = [calls EXCEPT ![s] = @ + 1]
               [] mw[s] = "Recovery" ->
                    LET appErr == RecoveryPanicError(cfg, rec)
                        logged == RecoveryLog(State(s), req[s], rec)
                    IN  /\ Store(s, WriteError(
                                        [logged EXCEPT !.ew = NewErrorResponseWriter],
                                        req[s], cfg, appErr))
                        /\ synth' = [synth EXCEPT ![s] = appErr]
                        /\ pc' = [pc EXCEPT ![s] = "ErrorWritten"]
                        /\ calls' = [calls EXCEPT ![s] = @ + 1]
               [] OTHER ->
                    /\ pc' = [pc EXCEPT ![s] = "Panicked"]
                    /\ UNCHANGED <<w, ew, logs, uuidCount, synth, calls>>
    /\ UNCHANGED <<cfg, mw, req, arg, ops, nreq>>
    /\ UNCHANGED <<logVars, libVars, svcVars>>

Next ==
    \/ StartRequest("a")
    \/ HandlerWriteHeader("a")
    \/ HandlerWrite("a")
    \/ HandlerSuccess("a")
    \/ HandlerResponseError("a")
    \/ HandlerReturn("a")
    \/ HandlerReturnError("a")
    \/ HandlerPanic("a")

Spec == InitReq /\ [][Next]_vars

----------------------------------------------------------------------------
(* internal/logger: the global logger under concurrent GetLogger calls *)

Procs == {"g1", "g2", "g3"}

\* globalLogger is read and written without synchronization. A goroutine's
\* read returns the initial nil (0) or any value written so far, but nothing
\* older than what the goroutine has itself written or already read:
\* gwrites[i] for some i >= gseen[g], where index 0 stands for nil.
Visible(g) == gseen[g]..Len(gwrites)

ValueAt(i) == IF i = 0 THEN 0 ELSE gwrites[i]

InitGet ==
    /\ cfg \in {c \in Configs : ~c.EnableStackTrace /\ ~c.EnableDetailedErrors}
    /\ mw = [s \in Slots |-> "none"]
    /\ req = [s \in Slots |-> NewRequest(CtxAbsent, "", CtxAbsent)]
    /\ arg = [s \in Slots |-> NilErr]
    /\ pc = [s \in Slots |-> "Idle"]
    /\ w = [s \in Slots |-> NewRecorder]
    /\ ew = [s \in Slots |-> NewErrorResponseWriter]
    /\ logs = [s \in Slots |-> <<>>]
    /\ calls = [s \in Slots |-> 0]
    /\ ops = [s \in Slots |-> 0]
    /\ panicVal = [s \in Slots |-> ""]
    /\ synth = [s \in Slots |-> NilErr]
    /\ uuidCount = 0
    /\ nreq = 0
    /\ globalLogger = 0
    /\ initCount = 0
    /\ gpc = [g \in Procs |-> "idle"]
    /\ gseen = [g \in Procs |-> 0]
    /\ gret = [g \in Procs |-> <<>>]
    /\ gwrites = <<>>
    /\ InitLib
    /\ InitSvc

\* GetLogger: if globalLogger == nil
GetLoggerCheck(g) ==
    /\ gpc[g] = "idle"
    /\ Len(gret[g]) < MaxGetCalls
    /\ \E i \in Visible(g) :
          /\ gseen' = [gseen EXCEPT ![g] = i]
          /\ gpc' = [gpc EXCEPT ![g] = IF ValueAt(i) = 0 THEN "init" ELSE "return"]
    /\ UNCHANGED <<globalLogger, initCount, gret, gwrites>>
    /\ UNCHANGED <<reqVars, libVars, svcVars>>

\* Initialize("go-std-api", "1.0.0"): allocates a Logger and stores it
Initialize(g) ==
    /\ gpc[g] = "init"
    /\ initCount' = initCount + 1
    /\ globalLogger' = initCount + 1
    /\ gwrites' = Append(gwrites, initCount + 1)
    /\ gseen' = [gseen EXCEPT ![g] = Len(gwrites) + 1]
    /\ gpc' = [gpc EXCEPT ![g] = "return"]
    /\ UNCHANGED gret
    /\ UNCHANGED <<reqVars, libVars, svcVars>>

\* GetLogger: return globalLogger
GetLoggerReturn(g) ==
    /\ gpc[g] = "return"
    /\ \E i \in Visible(g) :
          /\ gseen' = [gseen EXCEPT ![g] = i]
          /\ gret' = [gret EXCEPT ![g] = Append(@, ValueAt(i))]
    /\ gpc' = [gpc EXCEPT ![g] = "idle"]
    /\ UNCHANGED <<globalLogger, initCount, gwrites>>
    /\ UNCHANGED <<reqVars, libVars, svcVars>>

NextLogger ==
    \E g \in Procs :
        \/ GetLoggerCheck(g)
        \/ Initialize(g)
        \/ GetLoggerReturn(g)

SpecLogger == InitGet /\ [][NextLogger]_vars

----------------------------------------------------------------------------
(* internal/errors on instances: one AppError and its with-calls *)

\* No request is being served and no goroutine is inside GetLogger
InitIdle ==
    /\ cfg \in {c \in Configs : ~c.EnableStackTrace /\ ~c.EnableDetailedErrors}
    /\ mw = [s \in Slots |-> "none"]
    /\ req = [s \in Slots |-> NewRequest(CtxAbsent, "", CtxAbsent)]
    /\ arg = [s \in Slots |-> NilErr]
    /\ pc = [s \in Slots |-> "Idle"]
    /\ w = [s \in Slots |-> NewRecorder]
    /\ ew = [s \in Slots |-> NewErrorResponseWriter]
    /\ logs = [s \in Slots |-> <<>>]
    /\ calls = [s \in Slots |-> 0]
    /\ ops = [s \in Slots |-> 0]
    /\ panicVal = [s \in Slots |-> ""]
    /\ synth = [s \in Slots |-> NilErr]
    /\ uuidCount = 0
    /\ nreq = 0
    /\ InitLogger

\* The codes of the package, one the package does not know, and the empty one
Codes ==
    {ErrCodeNotFound, ErrCodeBadRequest, ErrCodeUnauthorized, ErrCodeForbidden,
     ErrCodeConflict, ErrCodeValidation, ErrCodeRateLimit, ErrCodeInternal,
     ErrCodeServiceUnavailable, ErrCodeDatabaseError, ErrCodeExternalService,
     "TEAPOT", ""}

Messages == {"user not found", ""}

DetailValues == {"", "bad input"}

ContextKeys == {"k1", "k2"}

ContextValues == {"v1", "v2"}

InternalCauses == {NilErr, PlainErr("cause-A")}

StatusOverrides == {400, 503}

\* What a newly constructed instance is remembered by
Birth(e) == [Code |-> e.Code, Message |-> e.Message, HTTPStatus |-> e.HTTPStatus]

\* One with-call on the instance at p: the instance is updated in place
Call(p, e, op, key, val) ==
    /\ p \in 1..Len(heap)
    /\ Len(trail[p]) < MaxWithCalls
    /\ heap' = [heap EXCEPT ![p] = e]
    /\ trail' = [trail EXCEPT ![p] =
                    Append(@, [op |-> op, key |-> key, val |-> val,
                               num |-> e.HTTPStatus])]
    /\ prev' = heap
    /\ last' = [NoOp EXCEPT !.op = op, !.ptr = p, !.key = key, !.val = val,
                            !.num = e.HTTPStatus, !.out = p]
    /\ UNCHANGED <<born, ve, veAdded>>
    /\ UNCHANGED <<reqVars, logVars, sinkVars, svcVars>>

\* errors.NewAppError(code, message)
ErrNew ==
    /\ heap = <<>>
    /\ \E code \in Codes, message \in Messages :
          /\ heap' = <<NewAppError(code, message)>>
          /\ born' = <<Birth(NewAppError(code, message))>>
          /\ last' = [NoOp EXCEPT !.op = "NewAppError", !.ptr = 1, !.key = code,
                                  !.val = message, !.out = 1]
    /\ trail' = << <<>> >>
    /\ prev' = heap
    /\ UNCHANGED <<ve, veAdded>>
    /\ UNCHANGED <<reqVars, logVars, sinkVars, svcVars>>

ErrWithDetails(p) ==
    \E d \in DetailValues :
        Call(p, WithDetails(heap[p], d), "WithDetails", "", d)

ErrWithContext(p) ==
    \E k \in ContextKeys, v \in ContextValues :
        Call(p, WithContext(heap[p], k, v), "WithContext", k, v)

ErrWithInternal(p) ==
    \E c \in InternalCauses :
        Call(p, WithInternal(heap[p], c), "WithInternal", "",
             IF c.kind = "nil" THEN NoCause ELSE c.text)

ErrWithRequestID(p) ==
    Call(p, WithRequestID(heap[p], "rid-1"), "WithRequestID", "", "rid-1")

ErrWithUserID(p) ==
    Call(p, WithUserID(heap[p], "user-1"), "WithUserID", "", "user-1")

ErrWithHTTPStatus(p) ==
    \E st \in StatusOverrides :
        Call(p, WithHTTPStatus(heap[p], st), "WithHTTPStatus", "", "")

\* e.Error() on the instance at p
ErrError(p) ==
    /\ p \in 1..Len(heap)
    /\ last.op # "Error"
    /\ last' = [NoOp EXCEPT !.op = "Error", !.ptr = p,
                            !.res = AppErrorError(heap[p])]
    /\ prev' = heap
    /\ UNCHANGED <<heap, born, trail, ve, veAdded>>
    /\ UNCHANGED <<reqVars, logVars, sinkVars, svcVars>>

InitAppError == InitIdle /\ InitLib /\ InitSvc

NextAppError ==
    \/ ErrNew
    \/ ErrWithDetails(1)
    \/ ErrWithContext(1)
    \/ ErrWithInternal(1)
    \/ ErrWithRequestID(1)
    \/ ErrWithUserID(1)
    \/ ErrWithHTTPStatus(1)
    \/ ErrError(1)

SpecAppError == InitAppError /\ [][NextAppError]_vars

----------------------------------------------------------------------------
(* internal/errors on instances: AsAppError and ValidationErrors *)

\* A *AppError result stored in an error interface
AsError(p) == IF p = 0 THEN NilPtrRef ELSE AppRef(p)

\* The error an interface value denotes, with the fields of its instance
Deref(h, x) ==
    CASE x.kind = "app" -> h[x.ptr]
      [] x.kind = "wrap" -> [h[x.ptr] EXCEPT !.kind = "wrap", !.text = x.text]
      [] x.kind = "plain" -> PlainErr(x.text)
      [] OTHER -> NilErr

\* AsAppError that returns a copy of the AppError it finds
AsAppErrorAtCopy(h, x) ==
    CASE x.kind \in {"nil", "nilptr"} -> [heap |-> h, ptr |-> 0]
      [] OTHER -> [heap |-> Append(h, AsAppError(Deref(h, x))), ptr |-> Len(h) + 1]

\* AsAppError with the address it returns (0 is nil) and the instances after
\* it: errors.As yields the address found in the chain (nil for a nil
\* *AppError); only an error that is not an AppError allocates.
AsAppErrorAt(h, x) ==
    CASE x.kind \in {"nil", "nilptr"} -> [heap |-> h, ptr |-> 0]
      [] x.kind \in {"app", "wrap"} -> [heap |-> h, ptr |-> x.ptr]
      [] OTHER -> [heap |-> Append(h, AsAppError(Deref(h, x))), ptr |-> Len(h) + 1]

\* ValidationErrors.Add that puts the new error first
VeAddFront(h, v, field, message) ==
    [heap |-> Append(h, ValidationError(field, message)),
     ve |-> <<Len(h) + 1>> \o v]

\* ValidationErrors.Add
VeAdd(h, v, field, message) ==
    [heap |-> Append(h, ValidationError(field, message)),
     ve |-> Append(v, Len(h) + 1)]

\* ValidationErrors.HasErrors
HasErrors(v) == Len(v) > 0

\* ValidationErrors.ToAppError
ToAppError(h, v) ==
    IF ~HasErrors(v)
    THEN [heap |-> h, ptr |-> 0]
    ELSE [heap |-> Append(h, WithContext(NewAppError(ErrCodeValidation,
                                                     "Multiple validation errors"),
                                         "validation_errors", v)),
          ptr |-> Len(h) + 1]

\* The error values a caller can hold
Refs(h) ==
    {NilRef, NilPtrRef, PlainRef("boom")}
        \cup {AppRef(p) : p \in 1..Len(h)} \cup {WrapRef(p) : p \in 1..Len(h)}

ValidatedFields == {"email", "name"}

\* The instances after an operation that left them as h
Allocated(h) ==
    /\ Len(h) <= MaxInstances
    /\ heap' = h
    /\ born' = born \o [i \in 1..(Len(h) - Len(heap)) |-> Birth(h[Len(heap) + i])]
    /\ trail' = trail \o [i \in 1..(Len(h) - Len(heap)) |-> <<>>]
    /\ prev' = heap

\* errors.NotFound("user") or errors.DatabaseError("insert", cause)
ColConstruct ==
    /\ \E e \in {NotFound("user"), DatabaseError("insert", PlainErr("cause-A"))} :
          Allocated(Append(heap, e))
    /\ last' = [NoOp EXCEPT !.op = "Construct", !.out = Len(heap) + 1]
    /\ UNCHANGED <<ve, veAdded>>
    /\ UNCHANGED <<reqVars, logVars, sinkVars, svcVars>>

\* errors.AsAppError(x)
ColAsAppError ==
    /\ \E x \in Refs(heap) :
          /\ Allocated(AsAppErrorAt(heap, x).heap)
          /\ last' = [NoOp EXCEPT !.op = "AsAppError", !.in = x,
                                  !.out = AsAppErrorAt(heap, x).ptr]
    /\ UNCHANGED <<ve, veAdded>>
    /\ UNCHANGED <<reqVars, logVars, sinkVars, svcVars>>

\* ve.Add(field, message)
ColAdd ==
    /\ \E f \in ValidatedFields :
          /\ Allocated(VeAdd(heap, ve, f, "is required").heap)
          /\ ve' = VeAdd(heap, ve, f, "is required").ve
          /\ veAdded' = Append(veAdded, f)
          /\ last' = [NoOp EXCEPT !.op = "Add", !.key = f, !.out = Len(heap) + 1]
    /\ UNCHANGED <<reqVars, logVars, sinkVars, svcVars>>

\* ve.HasErrors()
ColHasErrors ==
    /\ last.op # "HasErrors"
    /\ last' = [NoOp EXCEPT !.op = "HasErrors", !.flag = HasErrors(ve)]
    /\ prev' = heap
    /\ UNCHANGED <<heap, born, trail, ve, veAdded>>
    /\ UNCHANGED <<reqVars, logVars, sinkVars, svcVars>>

\* ve.ToAppError()
ColToAppError ==
    /\ last.op # "ToAppError"
    /\ Allocated(ToAppError(heap, ve).heap)
    /\ last' = [NoOp EXCEPT !.op = "ToAppError", !.out = ToAppError(heap, ve).ptr]
    /\ UNCHANGED <<ve, veAdded>>
    /\ UNCHANGED <<reqVars, logVars, sinkVars, svcVars>>

InitCollect == InitIdle /\ InitLib /\ InitSvc

NextCollect ==
    \/ ColConstruct
    \/ ColAsAppError
    \/ ColAdd
    \/ ColHasErrors
    \/ ColToAppError

SpecCollect == InitCollect /\ [][NextCollect]_vars

----------------------------------------------------------------------------
(* internal/logger: derived loggers and what is emitted through them *)

\* A context.Context with its values under the three logger keys
NewContext(rid, uid, tid) ==
    [ctxRequestID |-> rid, ctxUserID |-> uid, ctxTraceID |-> tid]

Contexts ==
    {NewContext(CtxAbsent, CtxAbsent, CtxAbsent),
     NewContext(CtxStr("ctx-1"), CtxAbsent, CtxAbsent),
     NewContext(CtxStr("ctx-1"), CtxStr("user-1"), CtxStr("trace-1")),
     NewContext(CtxOther, CtxStr("user-2"), CtxStr(""))}

\* slog.String(key, value) appended when the value is not empty
AppendAttr(attrs, key, value) ==
    IF value # "" THEN Append(attrs, [key |-> key, value |-> value]) ELSE attrs

\* The attrs Logger.WithContext collects from ctx
ContextAttrs(ctx) ==
    AppendAttr(
        AppendAttr(
            AppendAttr(<<>>, "request_id", getStringFromContext(ctx.ctxRequestID)),
            "user_id", getStringFromContext(ctx.ctxUserID)),
        "trace_id", getStringFromContext(ctx.ctxTraceID))

\* Logger.WithContext that adds the attributes to the receiver as well
WithContextInPlace(ls, p, ctx) ==
    Append([ls EXCEPT ![p].attrs = @ \o ContextAttrs(ctx)],
           [attrs |-> ls[p].attrs \o ContextAttrs(ctx), parent |-> p, ctx |-> ctx])

\* l.WithContext(ctx) on the logger at p: a new Logger whose slog.Logger is
\* the receiver's With the collected attrs
WithContextOn(ls, p, ctx) ==
    Append(ls, [attrs |-> ls[p].attrs \o ContextAttrs(ctx), parent |-> p,
                ctx |-> ctx])

\* Errors handed to Logger.Error
LoggedErrors ==
    {NotFound("user"),
     SetCause(NotFound("user"), "cause-A"),
     SensitiveInternal,
     SetCause(SensitiveInternal, "cause-B"),
     [SetCause(NotFound("post"), "cause-A") EXCEPT
         !.kind = "wrap", !.text = "load: NOT_FOUND: post not found"],
     PlainErr("boom")}

\* What reaches the log output for a call on the logger at l
Emitted(l, level, err, entry) ==
    [logger |-> l, level |-> level, attrs |-> loggers[l].attrs, in |-> err,
     error |-> entry]

\* child := loggers[p].WithContext(ctx)
LogWithContext(p) ==
    /\ Len(loggers) < MaxLoggers
    /\ \E ctx \in Contexts : loggers' = WithContextOn(loggers, p, ctx)
    /\ UNCHANGED sink
    /\ UNCHANGED <<reqVars, logVars, errVars, svcVars>>

\* loggers[l].Error(msg, err)
LogError(l) ==
    /\ Len(sink) < MaxRecords
    /\ \E err \in LoggedErrors :
          sink' = Append(sink, Emitted(l, "ERROR", err, ErrorAttr(err)))
    /\ UNCHANGED loggers
    /\ UNCHANGED <<reqVars, logVars, errVars, svcVars>>

\* loggers[l].Warn(msg)
LogWarn(l) ==
    /\ Len(sink) < MaxRecords
    /\ sink' = Append(sink, Emitted(l, "WARN", NilErr, NoErrorEntry))
    /\ UNCHANGED loggers
    /\ UNCHANGED <<reqVars, logVars, errVars, svcVars>>

\* Level of the record LogHTTPRequest emits for a status code
HTTPRequestLevel(statusCode) ==
    IF statusCode >= 400 THEN "ERROR"
    ELSE IF statusCode >= 300 THEN "WARN" ELSE "INFO"

\* loggers[l].LogHTTPRequest(ctx, method, path, statusCode, duration, err)
\* with a context that holds no values
LogHTTPRequest(l) ==
    /\ Len(sink) < MaxRecords
    /\ \E statusCode \in {200, 302, 500}, err \in {NilErr, PlainErr("boom")} :
          sink' = Append(sink, Emitted(l, HTTPRequestLevel(statusCode), err,
                                       ErrorAttr(err)))
    /\ UNCHANGED loggers
    /\ UNCHANGED <<reqVars, logVars, errVars, svcVars>>

\* loggers[l].LogDatabaseOperation(ctx, operation, table, duration, err)
\* with a context that holds no values
LogDatabaseOperation(l) ==
    /\ Len(sink) < MaxRecords
    /\ \E err \in {NilErr, PlainErr("connection refused")} :
          sink' = Append(sink, Emitted(l, IF err.kind # "nil" THEN "ERROR" ELSE "INFO",
                                       err, ErrorAttr(err)))
    /\ UNCHANGED loggers
    /\ UNCHANGED <<reqVars, logVars, errVars, svcVars>>

InitLog == InitIdle /\ InitLib /\ InitSvc

NextLog ==
    \E l \in 1..Len(loggers) :
        \/ LogWithContext(l)
        \/ LogError(l)
        \/ LogWarn(l)
        \/ LogHTTPRequest(l)
        \/ LogDatabaseOperation(l)

SpecLog == InitLog /\ [][NextLog]_vars

----------------------------------------------------------------------------
(* internal/middleware: AuthMiddleware and JWTAuthMiddleware *)

\* Header values and keys are sequences of pieces of text, so that prefixes
\* can be taken: "Bearer k1" is <<"Bearer", " ", "k1">>.
BearerPrefix == <<"Bearer", " ">>

\* strings.HasPrefix
HasPrefix(str, prefix) ==
    Len(str) >= Len(prefix) /\ SubSeq(str, 1, Len(prefix)) = prefix

\* strings.TrimPrefix
TrimPrefix(str, prefix) ==
    IF HasPrefix(str, prefix) THEN SubSeq(str, Len(prefix) + 1, Len(str)) ELSE str

\* Keys of context values: a key is equal to another only if both the type
\* and the value are equal
AuthUserIDKey == [type |-> "middleware.contextKey", name |-> "userID"]

AuthUsernameKey == [type |-> "middleware.contextKey", name |-> "username"]

LoggerRequestIDKey == [type |-> "logger.ContextKey", name |-> "request_id"]

LoggerUserIDKey == [type |-> "logger.ContextKey", name |-> "user_id"]

LoggerTraceIDKey == [type |-> "logger.ContextKey", name |-> "trace_id"]

\* context.WithValue(ctx, key, value) on the values added so far
WithValue(added, key, value) == Append(added, [key |-> key, value |-> value])

\* The outcome of an authentication middleware: 401 with a message, or the
\* next handler with the values added to the request context
Reject(message) == [pass |-> FALSE, message |-> message, added |-> <<>>]

Pass(added) == [pass |-> TRUE, message |-> "", added |-> added]

\* AuthMiddleware that accepts any Bearer token
AuthMiddlewareAnyToken(apiKey, authHeader) ==
    IF authHeader = <<>>
    THEN Reject("Authorization header required")
    ELSE IF ~HasPrefix(authHeader, BearerPrefix)
         THEN Reject("Invalid authorization format. Use 'Bearer <token>'")
         ELSE Pass(WithValue(<<>>, AuthUserIDKey, "authenticated-user"))

AuthMiddleware(apiKey, authHeader) ==
    IF authHeader = <<>>
    THEN Reject("Authorization header required")
    ELSE IF ~HasPrefix(authHeader, BearerPrefix)
         THEN Reject("Invalid authorization format. Use 'Bearer <token>'")
         ELSE IF TrimPrefix(authHeader, BearerPrefix) # apiKey
              THEN Reject("Invalid API key")
              ELSE Pass(WithValue(<<>>, AuthUserIDKey, "authenticated-user"))

\* AuthService.ValidateToken: the one token with a valid signature carries
\* these claims
ValidToken == <<"jwt-ok">>

ValidateToken(token) ==
    IF token = ValidToken
    THEN [ok |-> TRUE, UserID |-> "user-42", Username |-> "alice"]
    ELSE [ok |-> FALSE, UserID |-> "", Username |-> ""]

JWTAuthMiddleware(authHeader) ==
    IF authHeader = <<>>
    THEN Reject("Authorization header required")
    ELSE IF ~HasPrefix(authHeader, BearerPrefix)
         THEN Reject("Invalid authorization format. Use 'Bearer <token>'")
         ELSE LET claims == ValidateToken(TrimPrefix(authHeader, BearerPrefix))
              IN  IF ~claims.ok
                  THEN Reject("Invalid or expired token")
                  ELSE Pass(WithValue(WithValue(<<>>, AuthUserIDKey, claims.UserID),
                                      AuthUsernameKey, claims.Username))

\* ctx.Value(key) on the context of request r with the values in added: the
\* last value added under an equal key, else what the request came with
ContextValue(r, added, key) ==
    LET hits == {i \in 1..Len(added) : added[i].key = key}
    IN  IF hits # {}
        THEN CtxStr(added[CHOOSE i \in hits : \A j \in hits : j <= i].value)
        ELSE CASE key = LoggerRequestIDKey -> r.ctxRequestID
               [] key = LoggerUserIDKey -> r.ctxUserID
               [] key = LoggerTraceIDKey -> r.ctxTraceID
               [] OTHER -> CtxAbsent

\* r.WithContext(ctx): the request the next handler is given
WithContextValues(r, added) ==
    [r EXCEPT !.ctxRequestID = ContextValue(r, added, LoggerRequestIDKey),
              !.ctxUserID = ContextValue(r, added, LoggerUserIDKey),
              !.ctxTraceID = ContextValue(r, added, LoggerTraceIDKey)]

\* GetUserIDFromContext
GetUserIDFromContext(r, added) == ContextValue(r, added, AuthUserIDKey)

AuthHeaders ==
    {<<>>, <<"Bearer">>, <<"Bearer", " ">>, <<"Bearer", " ", "k1">>,
     <<"Bearer", " ", "k2">>, <<"Basic", " ", "k1">>, <<"bearer", " ", "k1">>,
     <<"Bearer", " ", " ", "k1">>, <<"Bearer", " ", "k1", " ">>, <<"k1">>,
     <<"Bearer", " ", "jwt-ok">>}

APIKeys == {<<"k1">>, <<"k2">>, <<>>}

InitAuth ==
    /\ cfg \in Configs
    /\ mw = [s \in Slots |-> "ErrorHandler"]
    /\ \E r \in ServedRequests : req = [s \in Slots |-> r]
    /\ arg = [s \in Slots |-> NilErr]
    /\ pc = [s \in Slots |-> "Idle"]
    /\ w = [s \in Slots |-> NewRecorder]
    /\ ew = [s \in Slots |-> NewErrorResponseWriter]
    /\ logs = [s \in Slots |-> <<>>]
    /\ calls = [s \in Slots |-> 0]
    /\ ops = [s \in Slots |-> 0]
    /\ panicVal = [s \in Slots |-> ""]
    /\ synth = [s \in Slots |-> NilErr]
    /\ uuidCount = 0
    /\ nreq = 0
    /\ InitLogger
    /\ InitLib
    /\ \E k \in {"apikey", "jwt"}, key \in APIKeys, h \in AuthHeaders :
          auth = [kind |-> k, apiKey |-> IF k = "apikey" THEN key ELSE <<>>,
                  hdr |-> h, pc |-> "start", added |-> <<>>]
    /\ page = PageIdle
    /\ users = <<>>
    /\ userCalls = [c \in Callers |-> CallIdle]

\* The middleware up to its http.Error or its call of the next handler
AuthServe ==
    /\ auth.pc = "start"
    /\ LET out == IF auth.kind = "apikey"
                  THEN AuthMiddleware(auth.apiKey, auth.hdr)
                  ELSE JWTAuthMiddleware(auth.hdr)
       IN  IF out.pass
           THEN /\ auth' = [auth EXCEPT !.pc = "next", !.added = out.added]
                /\ UNCHANGED w
           ELSE /\ auth' = [auth EXCEPT !.pc = "rejected"]
                /\ w' = [w EXCEPT !["a"] =
                            UWrite(UWriteHeader(UHeaderSet(@, "text/plain; charset=utf-8"),
                                                401),
                                   Chunk("text", out.message))]
    /\ UNCHANGED <<cfg, mw, req, pc, ew, logs, arg, calls, ops, panicVal, synth,
                   uuidCount, nreq>>
    /\ UNCHANGED <<logVars, libVars, nonAuthVars>>

\* The next handler answers 200
AuthNextOK ==
    /\ auth.pc = "next"
    /\ auth' = [auth EXCEPT !.pc = "served"]
    /\ w' = [w EXCEPT !["a"] = UWrite(UWriteHeader(@, 200), Chunk("data", "OK"))]
    /\ UNCHANGED <<cfg, mw, req, pc, ew, logs, arg, calls, ops, panicVal, synth,
                   uuidCount, nreq>>
    /\ UNCHANGED <<logVars, libVars, nonAuthVars>>

\* The next handler fails and the error middleware around it writes the
\* error for the request it was given
AuthNextError ==
    /\ auth.pc = "next"
    /\ auth' = [auth EXCEPT !.pc = "failed"]
    /\ \E err \in HandlerErrors :
          /\ arg' = [arg EXCEPT !["a"] = err]
          /\ Store("a", WriteError(State("a"), WithContextValues(req["a"], auth.added),
                                   cfg, err))
    /\ UNCHANGED <<cfg, mw, req, pc, calls, ops, panicVal, synth, nreq>>
    /\ UNCHANGED <<logVars, libVars, nonAuthVars>>

NextAuth ==
    \/ AuthServe
    \/ AuthNextOK
    \/ AuthNextError

SpecAuth == InitAuth /\ [][NextAuth]_vars

----------------------------------------------------------------------------
(* internal/models and internal/handlers: pagination *)

MaxInt == 2 ^ (IntBits - 1) - 1

MinInt == -(2 ^ (IntBits - 1))

\* The machine integer a mathematical result is stored as (two's complement)
Wrap(x) == ((x - MinInt) % (2 ^ IntBits)) + MinInt

\* Go's integer division, which truncates toward zero
GoDiv(a, b) == IF a >= 0 THEN a \div b ELSE -((-a) \div b)

Digits ==
    ("0" :> 0) @@ ("1" :> 1) @@ ("2" :> 2) @@ ("3" :> 3) @@ ("4" :> 4) @@
    ("5" :> 5) @@ ("6" :> 6) @@ ("7" :> 7) @@ ("8" :> 8) @@ ("9" :> 9)

\* The value of the digits str[i..], added to acc; saturates past the range
RECURSIVE ParseDigits(_, _, _)
ParseDigits(str, i, acc) ==
    IF i > Len(str)
    THEN acc
    ELSE IF acc > MaxInt + 1
         THEN acc
         ELSE ParseDigits(str, i + 1, acc * 10 + Digits[str[i]])

\* strconv.Atoi on a string given as its characters: an optional sign and
\* at least one digit, nothing else, and a value inside the int range
Atoi(str) ==
    LET signed == Len(str) >= 1 /\ str[1] \in {"+", "-"}
        first == IF signed THEN 2 ELSE 1
        wellFormed == /\ first <= Len(str)
                      /\ \A i \in first..Len(str) : str[i] \in DOMAIN Digits
        magnitude == ParseDigits(str, first, 0)
        val == IF signed /\ str[1] = "-" THEN -magnitude ELSE magnitude
    IN  IF wellFormed /\ val >= MinInt /\ val <= MaxInt
        THEN [ok |-> TRUE, val |-> val]
        ELSE [ok |-> FALSE, val |-> 0]

NewPaginationParams(pg, pageSize) ==
    LET p == IF pg < 1 THEN 1 ELSE pg
        ps == IF pageSize < 1 \/ pageSize > 100 THEN 10 ELSE pageSize
    IN  [Page |-> p, PageSize |-> ps, Offset |-> Wrap((p - 1) * ps)]

\* ParsePaginationParams on the page and page_size query values ("" when
\* the parameter is absent)
ParsePaginationParams(pageStr, pageSizeStr) ==
    LET p == Atoi(pageStr)
        ps == Atoi(pageSizeStr)
        pg == IF pageStr # <<>> /\ p.ok /\ p.val > 0 THEN p.val ELSE 1
        pageSize == IF pageSizeStr # <<>> /\ ps.ok /\ ps.val > 0 /\ ps.val <= 100
                    THEN ps.val ELSE 10
    IN  NewPaginationParams(pg, pageSize)

NewPaginationMeta(pg, pageSize, total) ==
    LET totalPages == GoDiv(Wrap(Wrap(total + pageSize) - 1), pageSize)
    IN  [Page |-> pg, PageSize |-> pageSize, Total |-> total,
         TotalPages |-> totalPages, HasNext |-> pg < totalPages,
         HasPrevious |-> pg > 1]

PageInputs == {MinInt, -1, 0, 1, 2, 3, 7, 400, MaxInt - 1, MaxInt}

PageSizeInputs == {MinInt, -1, 0, 1, 2, 10, 25, 100, 101, MaxInt}

TotalInputs == {0, 1, 9, 10, 11, 100, 101, 2500, MaxInt - 100, MaxInt}

QueryValues ==
    {<<>>, <<"3">>, <<"2", "0">>, <<"0">>, <<"-", "1">>, <<"+", "5">>,
     <<"0", "5">>, <<"a", "b", "c">>, <<"1", "a">>, <<"-">>, <<"1", "0", "0">>,
     <<"1", "0", "1">>, <<"3", "2", "7", "6", "7">>,
     <<"9", "9", "9", "9", "9", "9">>}

\* models.NewPaginationParams(page, pageSize)
PageNew ==
    /\ \E pg \in PageInputs, ps \in PageSizeInputs :
          page' = [PageIdle EXCEPT !.op = "NewPaginationParams", !.page = pg,
                                   !.pageSize = ps,
                                   !.params = NewPaginationParams(pg, ps)]
    /\ UNCHANGED <<reqVars, logVars, libVars, nonPageVars>>

\* handlers.ParsePaginationParams(r)
PageParse ==
    /\ \E a \in QueryValues, b \in QueryValues :
          page' = [PageIdle EXCEPT !.op = "ParsePaginationParams", !.pageStr = a,
                                   !.pageSizeStr = b,
                                   !.params = ParsePaginationParams(a, b)]
    /\ UNCHANGED <<reqVars, logVars, libVars, nonPageVars>>

\* models.NewPaginationMeta(page, pageSize, total) after valid parameters
PageMeta ==
    /\ \E pg \in {x \in PageInputs : x >= 1},
          ps \in {x \in PageSizeInputs : x >= 1 /\ x <= 100},
          total \in TotalInputs :
          page' = [PageIdle EXCEPT !.op = "NewPaginationMeta", !.page = pg,
                                   !.pageSize = ps, !.total = total,
                                   !.meta = NewPaginationMeta(pg, ps, total)]
    /\ UNCHANGED <<reqVars, logVars, libVars, nonPageVars>>

InitPage == InitIdle /\ InitLib /\ InitSvc

NextPage ==
    \/ PageNew
    \/ PageParse
    \/ PageMeta

SpecPage == InitPage /\ [][NextPage]_vars

----------------------------------------------------------------------------
(* internal/service and internal/repository: the user service *)

Usernames == {"alice", "bob"}

Passwords == {"pw1", "pw2"}

\* The hex SHA-256 digest of a password, as an injective encoding
Sha256(password) == "sha256(" \o password \o ")"

User(username, passwordHash) ==
    [isNil |-> FALSE, Username |-> username, PasswordHash |-> passwordHash]

\* The rows of the table with the given username
Rows(table, username) ==
    {i \in 1..Len(table) : table[i].Username = username}

\* userRepository.GetByUsername: the row, "user not found", or the
\* failure of the query
GetByUsername(table, username, fails) ==
    IF fails
    THEN [user |-> NoUser, err |-> "failed to get user: db"]
    ELSE IF Rows(table, username) = {}
         THEN [user |-> NoUser, err |-> "user not found"]
         ELSE [user |-> table[CHOOSE i \in Rows(table, username) : TRUE],
               err |-> ""]

\* userRepository.Create: INSERT into a table whose username is UNIQUE
RepoCreate(table, user, fails) ==
    IF fails
    THEN [table |-> table, err |-> "failed to create user: db"]
    ELSE IF Rows(table, user.Username) # {}
         THEN [table |-> table,
               err |-> "failed to create user: duplicate key"]
         ELSE [table |-> Append(table, user), err |-> ""]

\* ValidateCredentials comparing the stored hash with the password itself
ValidateCredentialsPlain(lookup, password) ==
    IF lookup.err # ""
    THEN [user |-> NoUser, err |-> "invalid credentials"]
    ELSE IF lookup.user.PasswordHash # password
         THEN [user |-> NoUser, err |-> "invalid credentials"]
         ELSE [user |-> lookup.user, err |-> ""]

\* userService.ValidateCredentials after its lookup
ValidateCredentials(lookup, password) ==
    IF lookup.err # ""
    THEN [user |-> NoUser, err |-> "invalid credentials"]
    ELSE IF lookup.user.PasswordHash # Sha256(password)
         THEN [user |-> NoUser, err |-> "invalid credentials"]
         ELSE [user |-> lookup.user, err |-> ""]

\* The row stored under a username, NoUser when there is none
Stored(table, username) ==
    IF Rows(table, username) = {}
    THEN NoUser
    ELSE table[CHOOSE i \in Rows(table, username) : TRUE]

\* userService.ValidateCredentials(ctx, username, password)
UserValidate(c) ==
    /\ userCalls[c].pc = "idle"
    /\ userCalls[c].n < MaxUserCalls
    /\ \E username \in Usernames, password \in Passwords \cup {""},
          fails \in BOOLEAN :
          LET lookup == GetByUsername(users, username, fails)
              res == ValidateCredentials(lookup, password)
          IN  userCalls' = [userCalls EXCEPT ![c] =
                  [CallIdle EXCEPT !.op = "ValidateCredentials", !.pc = "done",
                                   !.username = username,
                                   !.password = password,
                                   !.seen = Stored(users, username),
                                   !.lookupErr = lookup.err,
                                   !.user = res.user, !.err = res.err,
                                   !.n = userCalls[c].n + 1]]
    /\ UNCHANGED <<users>>
    /\ UNCHANGED <<reqVars, logVars, libVars, nonUserVars>>

\* userService.CreateUser up to its existence check
UserCreateLookup(c) ==
    /\ userCalls[c].pc = "idle"
    /\ userCalls[c].n < MaxUserCalls
    /\ \E username \in Usernames \cup {""}, password \in Passwords \cup {""},
          fails \in BOOLEAN :
          LET lookup == GetByUsername(users, username, fails)
              begun == [CallIdle EXCEPT !.op = "CreateUser",
                                        !.username = username,
                                        !.password = password,
                                        !.n = userCalls[c].n + 1]
          IN  userCalls' = [userCalls EXCEPT ![c] =
                  IF username = ""
                  THEN [begun EXCEPT !.pc = "done",
                                     !.err = "username is required"]
                  ELSE IF password = ""
                  THEN [begun EXCEPT !.pc = "done",
                                     !.err = "password is required"]
                  ELSE IF lookup.err = "" /\ ~lookup.user.isNil
                  THEN [begun EXCEPT !.pc = "done",
                                     !.seen = Stored(users, username),
                                     !.err = "username already exists"]
                  ELSE [begun EXCEPT !.pc = "create",
                                     !.seen = Stored(users, username),
                                     !.lookupErr = lookup.err]]
    /\ UNCHANGED <<users>>
    /\ UNCHANGED <<reqVars, logVars, libVars, nonUserVars>>

\* userService.CreateUser from hashing the password to its return
UserCreateInsert(c) ==
    /\ userCalls[c].pc = "create"
    /\ \E fails \in BOOLEAN :
          LET user == User(userCalls[c].username, Sha256(userCalls[c].password))
              res == RepoCreate(users, user, fails)
          IN  /\ users' = res.table
              /\ userCalls' = [userCalls EXCEPT ![c] =
                    [@ EXCEPT !.pc = "done",
                              !.storedAtCreate =
                                  Rows(users, userCalls[c].username) # {},
                              !.user = IF res.err = "" THEN user ELSE NoUser,
                              !.err = IF res.err = "" THEN ""
                                      ELSE "failed to create user: " \o res.err]]
    /\ UNCHANGED <<reqVars, logVars, libVars, nonUserVars>>

\* The caller takes the result and may call again
UserReturn(c) ==
    /\ userCalls[c].pc = "done"
    /\ userCalls[c].n < MaxUserCalls
    /\ userCalls' = [userCalls EXCEPT ![c] = [CallIdle EXCEPT !.n = userCalls[c].n]]
    /\ UNCHANGED <<users>>
    /\ UNCHANGED <<reqVars, logVars, libVars, nonUserVars>>

InitUsers == InitIdle /\ InitLib /\ InitSvc

NextUsers ==
    \E c \in Callers :
        \/ UserValidate(c)
        \/ UserCreateLookup(c)
        \/ UserCreateInsert(c)
        \/ UserReturn(c)

SpecUsers == InitUsers /\ [][NextUsers]_vars

----------------------------------------------------------------------------
(* Properties *)

\* The AppError a writer makes of the error it is given
Normalized(err) ==
    LET a == AsAppError(err)
    IN  IF a.kind = "nil" THEN InternalError("An unexpected error occurred") ELSE a

\* The slot's errorResponseWriter has been given its error by a direct call
Wrote(s) == mw[s] = "WriteError" /\ calls[s] >= 1

\* The slot's ResponseWriter has been given its error by a direct call
Responded(s) == mw[s] = "ResponseError" /\ calls[s] >= 1

\* The body is the one envelope the middleware wrote
OneEnvelope(s) == Len(w[s].body) = 1 /\ w[s].body[1].kind = "mwerr"

\* The four client-visible fields of an envelope
Visible4(ch) == <<ch.kind, ch.error, ch.code, ch.details, ch.context>>

C1_FirstCallWritten ==
    \A s \in Slots :
        Wrote(s) =>
            /\ ew[s].errorWritten
            /\ w[s].status = Normalized(arg[s]).HTTPStatus
            /\ Len(w[s].body) = 1
            /\ w[s].body[1].kind \in {"mwerr", "text"}
            /\ w[s].body[1].kind = "mwerr" =>
                  w[s].body[1] = buildErrorResponse(cfg,
                        WithRequestID(Normalized(arg[s]), w[s].body[1].request_id))
            /\ Len(logs[s]) <= 1

C1_LaterCallNoOp ==
    \A s \in Slots :
        (Wrote(s) /\ calls'[s] = calls[s] + 1) =>
            /\ w'[s] = w[s]
            /\ ew'[s] = ew[s]
            /\ logs'[s] = logs[s]
            /\ uuidCount' = uuidCount

\* C1: after any sequence of WriteError calls on one errorResponseWriter the
\* underlying writer holds exactly one status and one body, those of the
\* first call, and every later call changes nothing: no header, status, body
\* or log record.
C1_WriteErrorIdempotent == []C1_FirstCallWritten /\ [][C1_LaterCallNoOp]_vars

C1_Witness ==
    /\ mw["a"] = "WriteError"
    /\ calls["a"] = 2
    /\ arg["a"].Code = ErrCodeNotFound
    /\ w["a"].status = 404
    /\ Len(w["a"].body) = 1
    /\ Len(logs["a"]) = 1

\* C2: a request through ErrorHandler or WithErrorHandler never ends with
\* both a status or body written by the handler and an error envelope written
\* by the middleware on the same underlying writer.
C2_CompletedXorErrorWritten ==
    \A s \in Slots :
        (mw[s] \in {"ErrorHandler", "WithErrorHandler"} /\ pc[s] \in Terminal) =>
            ~ (/\ ops[s] > 0
               /\ \E i \in 1..Len(w[s].body) : w[s].body[i].kind = "mwerr")

\* C3: a handler under ErrorHandler or Recovery that panics yields status 500
\* and a body that is one error envelope with code INTERNAL_ERROR, and the
\* panic does not pass the middleware.
C3_PanicYields500 ==
    \A s \in Slots :
        (mw[s] \in {"ErrorHandler", "Recovery"} /\ panicVal[s] # ""
            /\ pc[s] \in Terminal) =>
            /\ pc[s] = "ErrorWritten"
            /\ w[s].status = 500
            /\ OneEnvelope(s)
            /\ w[s].body[1].code = ErrCodeInternal

\* C4: without detailed errors, the envelope of any error of status >= 500
\* has the default message, code INTERNAL_ERROR, no details and no context,
\* whatever the error's own code, message, details and context.
C4_SanitizedServerErrors ==
    \A s \in Slots :
        (Wrote(s) /\ ~cfg.EnableDetailedErrors
            /\ Normalized(arg[s]).HTTPStatus >= 500) =>
            /\ OneEnvelope(s)
            /\ w[s].body[1].error = cfg.DefaultMessage
            /\ w[s].body[1].code = ErrCodeInternal
            /\ w[s].body[1].details = ""
            /\ w[s].body[1].context = NilMap

C4_Witness ==
    /\ Wrote("a")
    /\ ~cfg.EnableDetailedErrors
    /\ arg["a"].Code = ErrCodeDatabaseError
    /\ arg["a"].Details = "duplicate key"
    /\ arg["a"].Internal = "cause-A"
    /\ w["a"].status = 500
    /\ w["a"].body[1].code = ErrCodeInternal

\* C5: for an error of status 400..499 the written envelope carries the
\* error's own message, code, details and context, with detailed errors on
\* or off.
C5_ClientErrorsPassThrough ==
    \A s \in Slots :
        (Wrote(s) /\ Normalized(arg[s]).HTTPStatus \in 400..499
            /\ w[s].body[1].kind = "mwerr") =>
            /\ w[s].body[1].error = Normalized(arg[s]).Message
            /\ w[s].body[1].code = Normalized(arg[s]).Code
            /\ w[s].body[1].details = Normalized(arg[s]).Details
            /\ w[s].body[1].context = Normalized(arg[s]).Context

C5_Witness ==
    /\ Wrote("a")
    /\ ~cfg.EnableDetailedErrors
    /\ arg["a"].Code = ErrCodeInternal
    /\ arg["a"].HTTPStatus = 400
    /\ w["a"].body[1].kind = "mwerr"
    /\ w["a"].body[1].details = "sensitive DB details"
    /\ MapHas(w["a"].body[1].context, "table")

\* C6: the envelope ResponseWriter.Error writes for an error of status >= 500
\* carries neither the error's details nor its context when detailed errors
\* are not enabled.
C6_ResponseErrorSuppressesDetails ==
    \A s \in Slots :
        (Responded(s) /\ ~cfg.EnableDetailedErrors
            /\ Normalized(arg[s]).HTTPStatus >= 500) =>
            \A i \in 1..Len(w[s].body) :
                /\ w[s].body[i].details = ""
                /\ MapEmpty(w[s].body[i].context)

\* C7: the AppError synthesized for a recovered panic has context.panic set
\* and has a stack_trace entry exactly when EnableStackTrace is set, so that
\* without EnableStackTrace no envelope for a panic carries a stack trace.
C7_StackTraceOnlyIfEnabled ==
    \A s \in Slots :
        (panicVal[s] # "" /\ pc[s] = "ErrorWritten") =>
            /\ MapHas(synth[s].Context, "panic")
            /\ MapHas(synth[s].Context, "stack_trace") <=> cfg.EnableStackTrace
            /\ ~cfg.EnableStackTrace =>
                  \A i \in 1..Len(w[s].body) :
                      ~MapHas(w[s].body[i].context, "stack_trace")

\* C8: every envelope WriteError writes has a non-empty request_id: the
\* context's request id if it is a non-empty string, else the X-Request-ID
\* header if non-empty, else an identifier generated for this call alone.
C8_RequestIDPriority ==
    \A s \in Slots :
        (Wrote(s) /\ w[s].body[1].kind = "mwerr") =>
            LET id == w[s].body[1].request_id
                r == req[s]
            IN  /\ id # ""
                /\ IF r.ctxRequestID.tag = "string" /\ r.ctxRequestID.str # ""
                   THEN id = r.ctxRequestID.str
                   ELSE IF r.hdrRequestID # ""
                        THEN id = r.hdrRequestID
                        ELSE /\ \E n \in 1..uuidCount : id = GenID(n)
                             /\ \A t \in Slots \ {s} :
                                   (Wrote(t) /\ w[t].body[1].kind = "mwerr") =>
                                       w[t].body[1].request_id # id

C8_Witness ==
    /\ Wrote("a")
    /\ Wrote("b")
    /\ req["a"].ctxRequestID = CtxStr("")
    /\ req["a"].hdrRequestID = ""
    /\ w["a"].body[1].kind = "mwerr"
    /\ w["b"].body[1].kind = "mwerr"
    /\ w["a"].body[1].request_id = GenID(2)
    /\ w["b"].body[1].request_id = GenID(1)

\* The text of every cause the inputs carry
CauseTexts == (Causes \ {NoCause}) \cup {"boom"}

\* C9: two errors that differ only in their internal cause get the same
\* status and the same envelope fields from WriteError and from
\* ResponseWriter.Error, and no envelope field holds the cause.
C9_CauseNeverSerialized ==
    /\ \A s \in Slots : \A i \in 1..Len(w[s].body) :
          /\ w[s].body[i].error \notin CauseTexts
          /\ w[s].body[i].details \notin CauseTexts
          /\ w[s].body[i].text \notin CauseTexts
          /\ \A k \in DOMAIN w[s].body[i].context.kv :
                w[s].body[i].context.kv[k] \notin CauseTexts
    /\ (calls["a"] >= 1 /\ calls["a"] = calls["b"]) =>
          /\ w["a"].status = w["b"].status
          /\ Len(w["a"].body) = Len(w["b"].body)
          /\ \A i \in 1..Len(w["a"].body) :
                Visible4(w["a"].body[i]) = Visible4(w["b"].body[i])

C9_Witness ==
    /\ cfg.EnableDetailedErrors
    /\ calls["a"] = 1
    /\ calls["b"] = 1
    /\ arg["a"].Internal = "cause-A"
    /\ arg["b"].Internal = "cause-B"
    /\ arg["a"].Details = "sensitive DB details"
    /\ Len(w["a"].body) = 1
    /\ w["a"].body[1].details = "sensitive DB details"
    /\ w["b"].body[1].details = "sensitive DB details"

\* C10: however concurrent GetLogger calls interleave, Initialize runs once
\* and every GetLogger call returns the same Logger.
C10_LoggerInitializedOnce ==
    /\ initCount <= 1
    /\ \A g \in DOMAIN gret, h \in DOMAIN gret :
          \A i \in 1..Len(gret[g]), j \in 1..Len(gret[h]) :
              gret[g][i] = gret[h][j]

----------------------------------------------------------------------------
(* Properties of internal/errors *)

\* The documented status of each code of the package
StatusTable ==
    (ErrCodeNotFound :> 404) @@ (ErrCodeBadRequest :> 400) @@
    (ErrCodeValidation :> 400) @@ (ErrCodeUnauthorized :> 401) @@
    (ErrCodeForbidden :> 403) @@ (ErrCodeConflict :> 409) @@
    (ErrCodeRateLimit :> 429) @@ (ErrCodeInternal :> 500) @@
    (ErrCodeServiceUnavailable :> 503) @@ (ErrCodeDatabaseError :> 500) @@
    (ErrCodeExternalService :> 500)

DefaultStatus(code) ==
    IF code \in DOMAIN StatusTable THEN StatusTable[code] ELSE 500

\* C11: NewAppError(code, _) sets HTTPStatus by the table, and to 500 for
\* every code that is not in it.
C11_StatusByCode ==
    last.op = "NewAppError" =>
        /\ heap[last.out].Code = last.key
        /\ heap[last.out].HTTPStatus = DefaultStatus(last.key)

C11_Witness ==
    /\ last.op = "NewAppError"
    /\ last.key = "TEAPOT"
    /\ heap[last.out].HTTPStatus = 500

\* The with-calls that are not WithHTTPStatus
Augmenters ==
    {"WithDetails", "WithContext", "WithInternal", "WithRequestID", "WithUserID"}

\* The instance the last with-call should have produced from the one before it
Augmented(e) ==
    CASE last.op = "WithDetails" -> [e EXCEPT !.Details = last.val]
      [] last.op = "WithInternal" -> [e EXCEPT !.Internal = last.val]
      [] last.op = "WithRequestID" -> [e EXCEPT !.RequestID = last.val]
      [] last.op = "WithUserID" -> [e EXCEPT !.UserID = last.val]
      [] OTHER -> e

\* The two maps agree on every key but k, which m2 maps to v
OnlyKeyChanged(m1, m2, k, v) ==
    /\ DOMAIN m2.kv = (DOMAIN m1.kv) \cup {k}
    /\ m2.kv[k] = v
    /\ \A x \in DOMAIN m1.kv : x # k => m2.kv[x] = m1.kv[x]

OnlyAugmenters(p) == \A i \in 1..Len(trail[p]) : trail[p][i].op \in Augmenters

\* C15: over WithDetails, WithContext, WithInternal, WithRequestID and
\* WithUserID calls the Code, Message and HTTPStatus of an AppError stay as
\* constructed, each call changes only its own field (WithContext only the
\* given key) on its own instance, and no with-call changes Code or Message.
C15_WithCallsFrame ==
    /\ \A p \in 1..Len(heap) :
          /\ heap[p].Code = born[p].Code
          /\ heap[p].Message = born[p].Message
          /\ OnlyAugmenters(p) => heap[p].HTTPStatus = born[p].HTTPStatus
    /\ last.op \in Augmenters \ {"WithContext"} =>
          heap = [prev EXCEPT ![last.ptr] = Augmented(prev[last.ptr])]
    /\ last.op = "WithContext" =>
          /\ heap = [prev EXCEPT ![last.ptr] =
                        [prev[last.ptr] EXCEPT !.Context = heap[last.ptr].Context]]
          /\ OnlyKeyChanged(prev[last.ptr].Context, heap[last.ptr].Context,
                            last.key, last.val)

C15_Witness ==
    /\ last.op = "WithDetails"
    /\ last.val = "bad input"
    /\ Len(trail[1]) = 2
    /\ trail[1][1].op = "WithContext"
    /\ heap[1].Message = "user not found"

\* The status the instance at p had before its i-th with-call
StatusBefore(p, i) == IF i = 1 THEN born[p].HTTPStatus ELSE trail[p][i - 1].num

\* The with-calls on the instance at p that changed its HTTPStatus
StatusChanges(p) ==
    {i \in 1..Len(trail[p]) : trail[p][i].num # StatusBefore(p, i)}

\* C16: HTTPStatus is the default of the code until overridden, and over any
\* sequence of with-calls on one error it changes value at most once.
C16_StatusOverriddenOnce ==
    \A p \in 1..Len(heap) :
        /\ born[p].HTTPStatus = DefaultStatus(born[p].Code)
        /\ StatusChanges(p) = {} => heap[p].HTTPStatus = born[p].HTTPStatus
        /\ Cardinality(StatusChanges(p)) <= 1

\* The WithContext calls made on the instance at p for key k
Attachments(p, k) ==
    {i \in 1..Len(trail[p]) : trail[p][i].op = "WithContext" /\ trail[p][i].key = k}

LastAttachment(p, k) ==
    CHOOSE i \in Attachments(p, k) : \A j \in Attachments(p, k) : j <= i

\* C17: after any sequence of WithContext calls the context maps every key
\* ever attached to the value of the last call for that key and has no key
\* that was never attached.
C17_ContextLastWriteWins ==
    \A p \in 1..Len(heap) :
        /\ DOMAIN heap[p].Context.kv =
              {k \in ContextKeys : Attachments(p, k) # {}}
        /\ \A k \in DOMAIN heap[p].Context.kv :
              heap[p].Context.kv[k] = trail[p][LastAttachment(p, k)].val

C17_Witness ==
    /\ Len(heap) = 1
    /\ Len(trail[1]) = 2
    /\ trail[1][1] = [op |-> "WithContext", key |-> "k1", val |-> "v1",
                      num |-> heap[1].HTTPStatus]
    /\ trail[1][2].op = "WithContext"
    /\ trail[1][2].key = "k1"
    /\ trail[1][2].val = "v2"

\* C18: Error() is "<code>: <message>" when details is empty and
\* "<code>: <message> - <details>" otherwise.
C18_ErrorFormat ==
    last.op = "Error" =>
        LET e == heap[last.ptr]
            head == e.Code \o ": " \o e.Message
        IN  /\ e.Details = "" => last.res = head
            /\ e.Details # "" => last.res = head \o " - " \o e.Details

C18_Witness ==
    /\ last.op = "Error"
    /\ heap[last.ptr].Details = "bad input"
    /\ heap[last.ptr].Code = ErrCodeNotFound
    /\ last.res = "NOT_FOUND: user not found - bad input"

\* The instances that existed before the last operation are as they were
OldInstancesKept ==
    /\ Len(heap) >= Len(prev)
    /\ \A p \in 1..Len(prev) : heap[p] = prev[p]

\* C12: AsAppError(nil) is nil and synthesizes nothing; for an error that is
\* not and does not wrap an AppError it returns a new AppError with code
\* INTERNAL_ERROR and status 500 whose Unwrap() is the original error.
C12_AsAppErrorOfPlainAndNil ==
    last.op = "AsAppError" =>
        /\ last.in.kind = "nil" => last.out = 0 /\ heap = prev
        /\ last.in.kind = "plain" =>
              /\ last.out = Len(prev) + 1
              /\ Len(heap) = Len(prev) + 1
              /\ OldInstancesKept
              /\ heap[last.out].Code = ErrCodeInternal
              /\ heap[last.out].HTTPStatus = 500
              /\ Unwrap(heap[last.out]) = last.in.text

C12_Witness ==
    /\ last.op = "AsAppError"
    /\ last.in = PlainRef("boom")
    /\ Len(prev) >= 1
    /\ Unwrap(heap[last.out]) = "boom"

\* AsAppError applied to the result of AsAppError(x) changes nothing
Idempotent(h, x) ==
    LET r1 == AsAppErrorAt(h, x)
        r2 == AsAppErrorAt(r1.heap, AsError(r1.ptr))
    IN  r2.ptr = r1.ptr /\ r2.heap = r1.heap

\* C13: AsAppError of an AppError is the same instance with all fields
\* unchanged, and AsAppError(AsAppError(x)) equals AsAppError(x).
C13_AsAppErrorIdentity ==
    /\ last.op = "AsAppError" /\ last.in.kind = "app" =>
          last.out = last.in.ptr /\ heap = prev
    /\ \A x \in Refs(heap) : Idempotent(heap, x)

C13_Witness ==
    /\ last.op = "AsAppError"
    /\ last.in = AppRef(1)
    /\ Len(heap) >= 2
    /\ heap[2] = heap[1]
    /\ last.out = 1

\* The list of field errors the AppError at p carries
CarriedList(p) == heap[p].Context.kv["validation_errors"]

\* C14: after n Add calls HasErrors() is true iff n > 0 and ToAppError() is
\* nil iff n = 0; when n > 0 it has code VALIDATION_ERROR and status 400 and
\* carries the n field errors in insertion order, each of code
\* VALIDATION_ERROR with context.field set to the added field.
C14_ValidationErrors ==
    /\ last.op = "HasErrors" => (last.flag <=> Len(veAdded) > 0)
    /\ last.op = "ToAppError" =>
          /\ last.out = 0 <=> Len(veAdded) = 0
          /\ last.out # 0 =>
                /\ heap[last.out].Code = ErrCodeValidation
                /\ heap[last.out].HTTPStatus = 400
                /\ Len(CarriedList(last.out)) = Len(veAdded)
                /\ \A i \in 1..Len(veAdded) :
                      /\ heap[CarriedList(last.out)[i]].Code = ErrCodeValidation
                      /\ heap[CarriedList(last.out)[i]].Context.kv["field"] = veAdded[i]

C14_Witness ==
    /\ last.op = "ToAppError"
    /\ veAdded = <<"email", "name">>
    /\ Len(CarriedList(last.out)) = 2

----------------------------------------------------------------------------
(* Properties of internal/logger *)

\* The string found in a context under a key ("" when there is none)
Found(v) == IF v.tag = "string" THEN v.str ELSE ""

\* The correlation attributes found in the context a logger was derived with
FoundIn(ctx) ==
    LET all == <<[key |-> "request_id", value |-> Found(ctx.ctxRequestID)],
                 [key |-> "user_id", value |-> Found(ctx.ctxUserID)],
                 [key |-> "trace_id", value |-> Found(ctx.ctxTraceID)]>>
        IsSet(a) == a.value # ""
    IN  SelectSeq(all, IsSet)

\* What the logger at l should carry: nothing for the global logger, and for
\* a derived one what its parent should carry and then its own context's
RECURSIVE ExpectedAttrs(_)
ExpectedAttrs(l) ==
    IF loggers[l].parent = 0
    THEN <<>>
    ELSE ExpectedAttrs(loggers[l].parent) \o FoundIn(loggers[l].ctx)

\* C19: the logger WithContext returns carries the request, user and trace
\* id found in the context, and the parent and the global logger stay as
\* they were: records emitted through them carry none of those attributes.
C19_DerivedLoggerLeavesParent ==
    /\ \A l \in 1..Len(loggers) : loggers[l].attrs = ExpectedAttrs(l)
    /\ \A i \in 1..Len(sink) : sink[i].attrs = ExpectedAttrs(sink[i].logger)

C19_Witness ==
    /\ Len(loggers) >= 2
    /\ Len(loggers[2].attrs) = 3
    /\ Len(sink) >= 1
    /\ sink[Len(sink)].logger = 1
    /\ sink[Len(sink)].attrs = <<>>

\* The errors that are or wrap an AppError
IsAppErr(err) == err.kind \in {"app", "wrap"}

\* C20: for an AppError Logger.Error emits a structured error sub-record
\* (code, message, details, context) that has a stack trace and the cause's
\* text if and only if the AppError has an internal cause, whatever its
\* HTTP status.
C20_StructuredErrorRecord ==
    \A i \in 1..Len(sink) :
        sink[i].level = "ERROR" /\ IsAppErr(sink[i].in) =>
            LET e == sink[i].in
                r == sink[i].error
            IN  /\ r.form = "structured"
                /\ r.Code = e.Code
                /\ r.Message = e.Message
                /\ r.Details = e.Details
                /\ r.Context = e.Context
                /\ r.StackTrace <=> e.Internal # NoCause
                /\ r.Internal = (IF e.Internal # NoCause THEN e.Internal ELSE "")

C20_Witness ==
    \E i \in 1..Len(sink) :
        /\ sink[i].level = "ERROR"
        /\ sink[i].in.kind = "app"
        /\ sink[i].in.HTTPStatus = 404
        /\ sink[i].error.StackTrace
        /\ sink[i].error.Internal = "cause-A"

\* C21: for a non-nil error that is not an AppError the record carries only
\* the plain error text under "error": no structured sub-record, no
\* synthesized code and no stack trace.
C21_PlainErrorAsText ==
    \A i \in 1..Len(sink) :
        sink[i].in.kind = "plain" =>
            /\ sink[i].error.form = "text"
            /\ sink[i].error.text = sink[i].in.text
            /\ sink[i].error.Code = ""
            /\ ~sink[i].error.StackTrace

----------------------------------------------------------------------------
(* Properties of internal/response and the middlewares, continued *)

\* The request id the request itself offers: the context's, else the header's
OfferedRequestID(r) ==
    IF r.ctxRequestID.tag = "string" /\ r.ctxRequestID.str # ""
    THEN r.ctxRequestID.str
    ELSE r.hdrRequestID

Invoked == auth.pc \in {"next", "served", "failed"}

\* C23: AuthMiddleware invokes the next handler iff the Authorization header
\* is "Bearer " followed by exactly the configured key; otherwise it answers
\* 401, never invokes the handler and puts no user id in the context; when
\* it invokes the handler the context user id is "authenticated-user".
C23_AuthMiddlewareExactKey ==
    (auth.kind = "apikey" /\ auth.pc # "start") =>
        /\ Invoked <=> auth.hdr = <<"Bearer", " ">> \o auth.apiKey
        /\ ~Invoked =>
              /\ auth.pc = "rejected"
              /\ w["a"].status = 401
              /\ GetUserIDFromContext(req["a"], auth.added) = CtxAbsent
        /\ Invoked =>
              GetUserIDFromContext(req["a"], auth.added) = CtxStr("authenticated-user")

C23_Witness ==
    /\ auth.kind = "apikey"
    /\ auth.apiKey = <<"k1">>
    /\ auth.hdr = <<"Bearer", " ", "k1">>
    /\ auth.pc = "served"
    /\ w["a"].status = 200

\* The user id the context of the request given to the next handler carries:
\* the one an authentication middleware put there, else the logger's
CarriedUserID ==
    LET a == GetUserIDFromContext(req["a"], auth.added)
        l == ContextValue(req["a"], auth.added, LoggerUserIDKey)
    IN  IF a.tag = "string" THEN a.str
        ELSE IF l.tag = "string" THEN l.str ELSE ""

\* C28: if the request context carries a user id, every error the error
\* middleware writes for the request is recorded with that user id, also
\* when AuthMiddleware or JWTAuthMiddleware put the user id there.
C28_UserIDThreaded ==
    (auth.pc = "failed" /\ CarriedUserID # "") =>
        \A i \in 1..Len(logs["a"]) : logs["a"][i].user_id = CarriedUserID

----------------------------------------------------------------------------
(* Properties of pagination *)

\* C24: every PaginationParams from NewPaginationParams or
\* ParsePaginationParams has Page >= 1, 1 <= PageSize <= 100 and
\* Offset = (Page-1)*PageSize >= 0; a page below 1 becomes 1 and a page
\* size outside 1..100 becomes 10.
C24_PaginationParamsInRange ==
    page.op \in {"NewPaginationParams", "ParsePaginationParams"} =>
        /\ page.params.Page >= 1
        /\ page.params.PageSize >= 1
        /\ page.params.PageSize <= 100
        /\ page.params.Offset = (page.params.Page - 1) * page.params.PageSize
        /\ page.params.Offset >= 0
        /\ page.op = "NewPaginationParams" =>
              /\ page.params.Page = (IF page.page < 1 THEN 1 ELSE page.page)
              /\ page.params.PageSize =
                    (IF page.pageSize \in 1..100 THEN page.pageSize ELSE 10)

\* The least n with n * d >= t
CeilDiv(t, d) == CHOOSE n \in 0..t : n * d >= t /\ (n = 0 \/ (n - 1) * d < t)

\* C25: for page >= 1, pageSize in 1..100 and total >= 0, NewPaginationMeta
\* has TotalPages = ceil(total / pageSize), HasNext iff page < TotalPages,
\* HasPrevious iff page > 1, and echoes Page, PageSize and Total.
C25_PaginationMeta ==
    (page.op = "NewPaginationMeta" /\ page.page >= 1 /\ page.pageSize \in 1..100
        /\ page.total >= 0) =>
        /\ page.meta.Page = page.page
        /\ page.meta.PageSize = page.pageSize
        /\ page.meta.Total = page.total
        /\ page.meta.TotalPages = CeilDiv(page.total, page.pageSize)
        /\ page.meta.HasNext <=> page.page < CeilDiv(page.total, page.pageSize)
        /\ page.meta.HasPrevious <=> page.page > 1

----------------------------------------------------------------------------
(* Properties of the user service *)

\* The finished calls of an operation
Finished(op) ==
    {c \in Callers : userCalls[c].op = op /\ userCalls[c].pc = "done"}

\* C26: ValidateCredentials returns "invalid credentials" and no user when
\* the username does not exist, the hash does not match or the lookup
\* fails; it returns the stored user only when the username exists and the
\* SHA-256 hash of the password equals the stored hash.
C26_ValidateCredentials ==
    \A c \in Finished("ValidateCredentials") :
        LET call == userCalls[c]
            matches == /\ ~call.seen.isNil
                       /\ call.lookupErr = ""
                       /\ call.seen.PasswordHash = Sha256(call.password)
        IN  /\ matches => call.user = call.seen /\ call.err = ""
            /\ ~matches => call.user = NoUser /\ call.err = "invalid credentials"

C26_Witness ==
    /\ \E c \in Finished("ValidateCredentials") :
          ~userCalls[c].user.isNil
    /\ \E c \in Finished("ValidateCredentials") :
          /\ ~userCalls[c].seen.isNil
          /\ userCalls[c].lookupErr = ""
          /\ userCalls[c].err = "invalid credentials"

\* C30: at most one stored user has any given username, and a CreateUser
\* call for a username that is already stored fails with "username already
\* exists" and stores nothing, also when two calls run concurrently or the
\* existence lookup fails.
C30_CreateUserUnique ==
    /\ \A username \in Usernames : Cardinality(Rows(users, username)) <= 1
    /\ \A c \in Finished("CreateUser") :
          (~userCalls[c].seen.isNil \/ userCalls[c].storedAtCreate) =>
              /\ userCalls[c].err = "username already exists"
              /\ userCalls[c].user = NoUser

----------------------------------------------------------------------------
(* Properties of the records the error writers emit *)

\* The level the HTTP status of a response implies
ImpliedLevel(status) == IF status >= 500 THEN "ERROR" ELSE "WARN"

\* C29: WriteError and ResponseWriter.Error record every error they write
\* with status >= 400 at the level its HTTP status implies: ERROR from 500,
\* WARN from 400 to 499, also when the status comes from WithHTTPStatus.
C29_SeverityByStatus ==
    \A s \in Slots :
        ((Wrote(s) \/ Responded(s)) /\ w[s].status >= 400) =>
            /\ w[s].status = Normalized(arg[s]).HTTPStatus
            /\ Len(logs[s]) = (IF Wrote(s) THEN 1 ELSE calls[s])
            /\ \A i \in 1..Len(logs[s]) :
                  /\ logs[s][i].level = ImpliedLevel(w[s].status)
                  /\ logs[s][i].status_code = w[s].status

C29_Witness ==
    /\ Wrote("a")
    /\ arg["a"].kind = "app"
    /\ arg["a"].Code = ErrCodeNotFound
    /\ w["a"].status = 503
    /\ Len(logs["a"]) = 1
    /\ logs["a"][1].level = "ERROR"

\* The request ended in an error response made by one error writer: the
\* middleware wrote the handler's error or panic, or the handler's only
\* operation was ResponseWriter.Error
EndedInError(s) ==
    \/ pc[s] = "ErrorWritten" /\ ops[s] = 0
    \/ /\ pc[s] = "Completed"
       /\ ops[s] = 1
       /\ Len(w[s].body) = 1
       /\ w[s].body[1].kind = "resperr"

\* C27: for every request that ends in an error response (via ErrorHandler,
\* Recovery, WithErrorHandler or ResponseWriter.Error) exactly one log
\* record is emitted, never zero and never two.
C27_OneRecordPerFailure ==
    \A s \in Slots : EndedInError(s) => Len(logs[s]) = 1

====
